---- MODULE Spec2Model ----
(***************************************************************************)
(* Model of the Dockfinity costing engine (src/src/calc.ts) and of the     *)
(* editor that feeds it (src/src/ui/App.tsx).  Spec is the editor with the *)
(* calculator behind it; SpecCalls is calc.ts under callers of its         *)
(* exported functions calculate and circleWeightG.  SpecDebounced and      *)
(* SpecSync are the two App revisions that keep the items in a remote      *)
(* store (src/unnamed/part_000), SpecDebouncedLive adds the fairness of    *)
(* the debounce timer, and SpecLocal is the local store under the first    *)
(* App revision.                                                           *)
(*                                                                         *)
(* Numbers.  calc.ts computes on JavaScript numbers.  A number is modelled *)
(* as a pair <<n, d>>: a finite value is the rational n/d in lowest terms  *)
(* with d > 0; <<1,0>> is Infinity, <<-1,0>> is -Infinity and <<0,0>> is   *)
(* NaN.  The arithmetic operators follow IEEE-754 on the special values    *)
(* (x/0, 0/0, Infinity - Infinity, 0 * Infinity, comparisons with NaN) and *)
(* are exact on finite values: binary rounding error is not modelled, and  *)
(* zero carries no sign (a signed zero only decides the sign of an         *)
(* infinity, never whether a value is finite).                             *)
(***************************************************************************)
EXTENDS Integers, Sequences, FiniteSets, TLC

VARIABLES
  item,      \* the selected Item, as the calculator receives it
  settings,  \* the AppSettings
  result,    \* the CalcResult of calculate(item, settings)
  locals,    \* the local variables of that call of calculate, at its return
  edits,     \* the number of edits made so far
  calls,     \* SpecCalls: the calls of calculate made so far, in order
  weighed,   \* SpecCalls: the last call of circleWeightG, if any
  items,           \* App state: the item list shown
  selectedId,      \* App state: the id selected, "" for none
  session,         \* App state: the signed-in user's id, "" for none
  remoteItems,     \* the user's rows of the remote table items, newest first
  remoteSettings,  \* the user's row of the remote table settings: << >> or <<s>>
  itemSaveTimer,   \* itemSaveTimer.current is a pending timeout
  lastItemToSave,  \* lastItemToSave.current: << >> for null, or <<item>>
  seedRuns,        \* how many times the seed items were written to the store
  unsaved,         \* the ids edited through quickSaveItem and not upserted since
  ops,             \* how many rate edits, clones, editor saves and imports were made
  idbItems,        \* SpecLocal: the set of items in the object store items
  idbSettings,     \* SpecLocal: the object store settings: << >> or <<s>>
  imports          \* SpecLocal: the last call of importAll, if any

calcVars == <<item, settings, result, locals, edits>>
callVars == <<calls, weighed>>
appVars ==
  <<items, selectedId, session, remoteItems, remoteSettings, itemSaveTimer,
    lastItemToSave, seedRuns, unsaved, ops>>
localVars == <<idbItems, idbSettings, imports>>

vars == <<calcVars, callVars, appVars, localVars>>

\* the variables of the App revisions and of the local store, where a
\* specification leaves them out
AppIdle ==
  /\ items = << >>
  /\ selectedId = ""
  /\ session = ""
  /\ remoteItems = << >>
  /\ remoteSettings = << >>
  /\ itemSaveTimer = FALSE
  /\ lastItemToSave = << >>
  /\ seedRuns = 0
  /\ unsaved = {}
  /\ ops = 0

LocalIdle ==
  /\ idbItems = {}
  /\ idbSettings = << >>
  /\ imports = << >>

-----------------------------------------------------------------------------
(* JavaScript numbers *)

Abs(a) == IF a < 0 THEN -a ELSE a

RECURSIVE GCD(_, _)
GCD(a, b) == IF b = 0 THEN a ELSE GCD(b, a % b)

\* the finite number n/d (d > 0) in lowest terms
Q(n, d) ==
  LET g == GCD(Abs(n), d)
  IN  <<n \div g, d \div g>>

N(n) == <<n, 1>>

Inf == <<1, 0>>
NegInf == <<-1, 0>>
NaN == <<0, 0>>

Zero == <<0, 1>>
One == <<1, 1>>

\* isFinite(x) for a number x
IsFinite(x) == x[2] # 0

IsNaN(x) == x = NaN

\* sign of a number that is not NaN: -1, 0 or 1
Sgn(x) == IF x[1] > 0 THEN 1 ELSE IF x[1] < 0 THEN -1 ELSE 0

Neg(x) == <<-x[1], x[2]>>

\* x + y
Add(x, y) ==
  IF IsNaN(x) \/ IsNaN(y) THEN NaN
  ELSE IF ~IsFinite(x) /\ ~IsFinite(y) THEN (IF x = y THEN x ELSE NaN)
  ELSE IF ~IsFinite(x) THEN x
  ELSE IF ~IsFinite(y) THEN y
  ELSE LET g == GCD(x[2], y[2])
       IN  Q(x[1] * (y[2] \div g) + y[1] * (x[2] \div g), (x[2] \div g) * y[2])

\* x - y
Sub(x, y) == Add(x, Neg(y))

\* x * y
Mul(x, y) ==
  IF IsNaN(x) \/ IsNaN(y) THEN NaN
  ELSE IF ~IsFinite(x) \/ ~IsFinite(y)
       THEN (IF Sgn(x) * Sgn(y) = 0 THEN NaN ELSE <<Sgn(x) * Sgn(y), 0>>)
  ELSE LET g1 == GCD(Abs(x[1]), y[2])
           g2 == GCD(Abs(y[1]), x[2])
       IN  <<(x[1] \div g1) * (y[1] \div g2), (x[2] \div g2) * (y[2] \div g1)>>

\* x / y
Div(x, y) ==
  IF IsNaN(x) \/ IsNaN(y) THEN NaN
  ELSE IF ~IsFinite(y) THEN (IF IsFinite(x) THEN Zero ELSE NaN)
  ELSE IF ~IsFinite(x) THEN (IF Sgn(y) < 0 THEN Neg(x) ELSE x)
  ELSE IF y[1] = 0 THEN (IF x[1] = 0 THEN NaN ELSE <<Sgn(x), 0>>)
  ELSE Mul(x, IF y[1] > 0 THEN <<y[2], y[1]>> ELSE <<-y[2], -y[1]>>)

\* x < y
Lt(x, y) ==
  IF IsNaN(x) \/ IsNaN(y) THEN FALSE
  ELSE IF ~IsFinite(x) \/ ~IsFinite(y)
       THEN (IF IsFinite(x) THEN y = Inf
             ELSE IF IsFinite(y) THEN x = NegInf
             ELSE x = NegInf /\ y = Inf)
  ELSE x[1] * y[2] < y[1] * x[2]

\* x > y
Gt(x, y) == Lt(y, x)

\* x === y
Eq(x, y) == ~IsNaN(x) /\ ~IsNaN(y) /\ x = y

\* x <= y
Le(x, y) == Lt(x, y) \/ Eq(x, y)

\* Math.round(x): the nearest integer, a tie going up
MathRound(x) ==
  IF ~IsFinite(x) THEN x
  ELSE N((2 * x[1] + x[2]) \div (2 * x[2]))

-----------------------------------------------------------------------------
(* calc.ts *)

\* effectiveThicknessMm with the tolerance added to 0.26 and 0.33 only
effectiveThicknessMm_OnlyCanonical(inputMm) ==
  IF inputMm \in {Q(13, 50), Q(33, 100)} THEN Add(inputMm, Q(3, 1000)) ELSE inputMm

\* effectiveThicknessMm(inputMm)
effectiveThicknessMm(inputMm) == Add(inputMm, Q(3, 1000))

\* circleWeightG(circleIn, thicknessMm)
circleWeightG(circleIn, thicknessMm) ==
  LET base == Mul(Mul(Div(N(263), N(254)), circleIn), circleIn)
      scale == Div(effectiveThicknessMm(thicknessMm), Q(263, 1000))
  IN  Mul(base, scale)

\* polybagWeightG(sizeIn, gauge)
polybagWeightG(sizeIn, gauge) == Div(Mul(Mul(sizeIn, sizeIn), gauge), N(3300))

\* pipeWeightG(widthIn, lengthIn, gauge)
pipeWeightG(widthIn, lengthIn, gauge) == Div(Mul(Mul(widthIn, lengthIn), gauge), N(3300))

\* r2(n) = Math.round(n * 100) / 100
r2(n) == Div(MathRound(Mul(n, N(100))), N(100))

\* r3(n) = Math.round(n * 1000) / 1000
r3(n) == Div(MathRound(Mul(n, N(1000))), N(1000))

\* pct(x) = x / 100
pct(x) == Div(x, N(100))

\* inductionChargeOf charging whenever a positive rate is stored, enabled or not
inductionChargeOf_IgnoresEnabled(part, pressDeliveredKalaKg) ==
  LET inductionRate == IF part.induction.present THEN part.induction.ratePerKg ELSE Zero
  IN  IF Gt(inductionRate, Zero)
      THEN Mul(pressDeliveredKalaKg, inductionRate)
      ELSE Zero

\* the induction charge of computePartForwardCost: part.induction?.enabled and
\* part.induction?.ratePerKg ?? 0 read through the optional chain
inductionChargeOf(part, pressDeliveredKalaKg) ==
  LET inductionEnabled == part.induction.present /\ part.induction.enabled
      inductionRate == IF part.induction.present THEN part.induction.ratePerKg ELSE Zero
  IN  IF inductionEnabled /\ Gt(inductionRate, Zero)
      THEN Mul(pressDeliveredKalaKg, inductionRate)
      ELSE Zero

\* a scrap credit of computePartForwardCost: enabled ? tutKg * ratePerKg : 0
scrapCreditOf(scrapReturn, tutKg) ==
  IF scrapReturn.enabled THEN Mul(tutKg, scrapReturn.ratePerKg) ELSE Zero

\* packingInputKgOf with the packing loss taken off the required mass
packingInputKgOf_Forward(requiredPackedKg, packing) ==
  Mul(requiredPackedKg, Sub(One, pct(packing.tutPct)))

\* packingInputKg = requiredPackedKg / (1 - packTutP)
packingInputKgOf(requiredPackedKg, packing) ==
  LET packTutP == pct(packing.tutPct)
  IN  Div(requiredPackedKg, Sub(One, packTutP))

\* polishInputKalaKgOf with the polish wastage forgotten
polishInputKalaKgOf_NoWastage(packingInputKg, polish) ==
  LET polTutP == pct(polish.tutPct)
  IN  Div(packingInputKg, Sub(One, polTutP))

\* polishInputKalaKg = packingInputKg / ((1 - polTutP) * (1 - polWastP))
polishInputKalaKgOf(packingInputKg, polish) ==
  LET polTutP == pct(polish.tutPct)
      polWastP == pct(polish.wastagePct)
  IN  Div(packingInputKg, Mul(Sub(One, polTutP), Sub(One, polWastP)))

\* polishTutKgOf with the polish wastage counted as scrap too
polishTutKgOf_WithWastage(polishInputKalaKg, polish) ==
  Mul(polishInputKalaKg, Add(pct(polish.tutPct), pct(polish.wastagePct)))

\* polishTutKg = polishInputKalaKg * polTutP
polishTutKgOf(polishInputKalaKg, polish) == Mul(polishInputKalaKg, pct(polish.tutPct))

\* polishDeliveredKg = polishInputKalaKg * (1 - polTutP) * (1 - polWastP)
polishDeliveredKgOf(polishInputKalaKg, polish) ==
  LET polTutP == pct(polish.tutPct)
      polWastP == pct(polish.wastagePct)
  IN  Mul(Mul(polishInputKalaKg, Sub(One, polTutP)), Sub(One, polWastP))

\* pressInputCircleKgOf with the job wastage forgotten
pressInputCircleKgOf_NoJobWastage(polishInputKalaKg, press) ==
  LET pressTutP == pct(press.tutPct)
  IN  Div(polishInputKalaKg, Sub(One, pressTutP))

\* pressInputCircleKg = polishInputKalaKg / ((1 - pressTutP) * (1 - jobWastP))
pressInputCircleKgOf(polishInputKalaKg, press) ==
  LET pressTutP == pct(press.tutPct)
      jobWastP == pct(press.jobWastagePct)
  IN  Div(polishInputKalaKg, Mul(Sub(One, pressTutP), Sub(One, jobWastP)))

\* pressTutKgOf with the fraction kept in place of the tut fraction
pressTutKgOf_Kept(pressInputCircleKg, press) ==
  Mul(pressInputCircleKg, Sub(One, pct(press.tutPct)))

\* pressTutKg = pressInputCircleKg * pressTutP
pressTutKgOf(pressInputCircleKg, press) == Mul(pressInputCircleKg, pct(press.tutPct))

\* pressDeliveredKalaKgOf with the mass sent into the press
pressDeliveredKalaKgOf_NoLoss(pressInputCircleKg, press) == pressInputCircleKg

\* pressDeliveredKalaKg = pressInputCircleKg * (1 - pressTutP) * (1 - jobWastP)
pressDeliveredKalaKgOf(pressInputCircleKg, press) ==
  LET pressTutP == pct(press.tutPct)
      jobWastP == pct(press.jobWastagePct)
  IN  Mul(Mul(pressInputCircleKg, Sub(One, pressTutP)), Sub(One, jobWastP))

\* The locals of computePartForwardCost are computed in the order of the
\* source, each group of them from the record f of those already computed.

\* lines 101-102: the packing input for the required packed kg
flowPacking(requiredPackedKg, packing) ==
  [ packedKgOut |-> requiredPackedKg,
    packingInputKg |-> packingInputKgOf(requiredPackedKg, packing) ]

\* lines 103-109: packing tut, polish input
flowPolish(f, polish) ==
  f @@ [ packingTutKg |-> Sub(f.packingInputKg, f.packedKgOut),
         polishInputKalaKg |-> polishInputKalaKgOf(f.packingInputKg, polish) ]

\* flowPress with the press actual wastage in the press divisor
flowPress_ActualWastage(f, press, polish) ==
  f @@ [ polishTutKg |-> polishTutKgOf(f.polishInputKalaKg, polish),
         polishDeliveredKg |-> polishDeliveredKgOf(f.polishInputKalaKg, polish),
         pressInputCircleKg |->
           Div(pressInputCircleKgOf(f.polishInputKalaKg, press),
               Sub(One, pct(press.actualWastagePct))) ]

\* lines 110-119: polish tut and delivery, press input
flowPress(f, press, polish) ==
  f @@ [ polishTutKg |-> polishTutKgOf(f.polishInputKalaKg, polish),
         polishDeliveredKg |-> polishDeliveredKgOf(f.polishInputKalaKg, polish),
         pressInputCircleKg |-> pressInputCircleKgOf(f.polishInputKalaKg, press) ]

\* lines 120-122: press tut and delivery
flowDelivered(f, press) ==
  f @@ [ pressTutKg |-> pressTutKgOf(f.pressInputCircleKg, press),
         pressDeliveredKalaKg |-> pressDeliveredKalaKgOf(f.pressInputCircleKg, press) ]

\* lines 97-122: the quantity flow, from the final required packed kg
quantityFlow(requiredPackedKg, part, polish, packing) ==
  flowDelivered(flowPress(flowPolish(flowPacking(requiredPackedKg, packing), polish),
                          part.press, polish),
                part.press)

\* lines 127-151: the costs (forward method) and the scrap credits
partCharges(f, part, polish, packing, circleRatePerKg) ==
  [ circleCost |-> Mul(f.pressInputCircleKg, circleRatePerKg),
    pressCharge |-> Mul(f.pressDeliveredKalaKg, part.press.ratePerKg),
    inductionCharge |-> inductionChargeOf(part, f.pressDeliveredKalaKg),
    polishCharge |-> Mul(f.polishDeliveredKg, polish.ratePerKg),
    scrapCreditPress |-> scrapCreditOf(part.press.scrapReturn, f.pressTutKg),
    scrapCreditPolish |-> scrapCreditOf(polish.scrapReturn, f.polishTutKg),
    scrapCreditPacking |-> scrapCreditOf(packing.scrapReturn, f.packingTutKg) ]

\* scrapCreditTotalOf without the packing scrap credit
scrapCreditTotalOf_NoPackingCredit(c) == Add(c.scrapCreditPress, c.scrapCreditPolish)

\* line 153: scrapCreditTotal
scrapCreditTotalOf(c) ==
  Add(Add(c.scrapCreditPress, c.scrapCreditPolish), c.scrapCreditPacking)

\* lines 156-161: partCost
partCostOf(c) ==
  Sub(Add(Add(Add(c.circleCost, c.pressCharge), c.inductionCharge), c.polishCharge),
      scrapCreditTotalOf(c))

\* lines 153-190: the PartCostResult, from the quantities f and the charges c;
\* stages holds the locals of the function that are not returned
partCostResult(f, c) ==
  [ flow |->
      [ circleKgIn |-> f.pressInputCircleKg,
        kalaKgOut |-> f.pressDeliveredKalaKg,
        polishKgOut |-> f.polishDeliveredKg,
        packedKgOut |-> f.packedKgOut,
        scrapKg |-> Add(Add(f.pressTutKg, f.polishTutKg), f.packingTutKg),
        scrapCredit |-> scrapCreditTotalOf(c),
        costPress |-> Add(c.circleCost, c.pressCharge),
        costInduction |-> c.inductionCharge,
        costPolish |-> c.polishCharge ],
    partCostExcludingFinalPackingCharge |-> partCostOf(c),
    partRatePerKgPacked |-> Div(partCostOf(c), f.packedKgOut),
    components |-> c,
    stages |->
      [ packingInputKg |-> f.packingInputKg,
        packingTutKg |-> f.packingTutKg,
        polishInputKalaKg |-> f.polishInputKalaKg,
        polishTutKg |-> f.polishTutKg,
        pressTutKg |-> f.pressTutKg ] ]

\* lines 124-190, the quantity flow f given
partCostFromFlow(f, part, polish, packing, circleRatePerKg) ==
  partCostResult(f, partCharges(f, part, polish, packing, circleRatePerKg))

\* computePartForwardCost(requiredPackedKg, part, polish, packing, circleRatePerKg)
computePartForwardCost(requiredPackedKg, part, polish, packing, circleRatePerKg) ==
  partCostFromFlow(quantityFlow(requiredPackedKg, part, polish, packing),
                   part, polish, packing, circleRatePerKg)

\* x || 0 for a number x: 0 and NaN are falsy
OrZero(x) == IF IsNaN(x) \/ x = Zero THEN Zero ELSE x

\* fallbackCircleRate(settings)
fallbackCircleRate(s) ==
  Add(Add(s.circleBaseRate, s.circleAddPerKg), OrZero(s.circleExtraAddPerKg))

\* resolvePartCircleRatePerKg without the test explicit > 0
resolvePartCircleRatePerKg_NoPositiveCheck(part, s) ==
  LET explicit == part.circleRatePerKg
  IN  IF explicit.t = "number" /\ IsFinite(explicit.v)
      THEN explicit.v
      ELSE fallbackCircleRate(s)

\* resolvePartCircleRatePerKg(part, settings); part.circleRatePerKg is any
\* JavaScript value: [t |-> typeof, v |-> the number when t = "number"]
resolvePartCircleRatePerKg(part, s) ==
  LET explicit == part.circleRatePerKg
  IN  IF explicit.t = "number" /\ IsFinite(explicit.v) /\ Gt(explicit.v, Zero)
      THEN explicit.v
      ELSE fallbackCircleRate(s)

\* finalCostOf with the batch packing charge left out
finalCostOf_NoPacking(boxCost, coverCost, kundaCost, plasticCost, packingCost) ==
  Add(Add(Add(boxCost, coverCost), kundaCost), plasticCost)

\* finalCost = boxCost + coverCost + kundaCost + plasticCost + packingCost
finalCostOf(boxCost, coverCost, kundaCost, plasticCost, packingCost) ==
  Add(Add(Add(Add(boxCost, coverCost), kundaCost), plasticCost), packingCost)

\* The locals of calculate are computed in the order of the source, each
\* group of them from the record c of those already computed.

\* afterPolishG reduced by the press job wastage as well
afterPolishG_JobWastage(part, polish) ==
  Mul(Mul(Mul(circleWeightG(part.circleSizeIn, part.thicknessMm),
              Sub(One, pct(part.press.actualWastagePct))),
          Sub(One, pct(part.press.jobWastagePct))),
      Sub(One, pct(polish.wastagePct)))

\* lines 215-222: circle weight after press actual wastage and polish wastage
afterPolishG(part, polish) ==
  Mul(Mul(circleWeightG(part.circleSizeIn, part.thicknessMm),
          Sub(One, pct(part.press.actualWastagePct))),
      Sub(One, pct(polish.wastagePct)))

\* perPcWeights counting the stored kunda weight, enabled or not
perPcWeights_KundaStored(it) ==
  [ boxAfterPolishG |-> afterPolishG(it.box, it.polish),
    coverAfterPolishG |-> afterPolishG(it.cover, it.polish),
    kundaG |-> it.kunda.weightG,
    polybagG |-> polybagWeightG(it.bagProfile.polybag.sizeIn, it.bagProfile.polybag.gauge),
    pipePerPcG |->
      Div(pipeWeightG(it.bagProfile.pipe.widthIn, it.bagProfile.pipe.lengthIn,
                      it.bagProfile.pipe.gauge),
          it.bagProfile.pipe.pcsPerPipe) ]

\* lines 215-228: weight per pc (grams)
perPcWeights(it) ==
  [ boxAfterPolishG |-> afterPolishG(it.box, it.polish),
    coverAfterPolishG |-> afterPolishG(it.cover, it.polish),
    kundaG |-> IF it.kunda.enabled THEN it.kunda.weightG ELSE Zero,
    polybagG |-> polybagWeightG(it.bagProfile.polybag.sizeIn, it.bagProfile.polybag.gauge),
    pipePerPcG |->
      Div(pipeWeightG(it.bagProfile.pipe.widthIn, it.bagProfile.pipe.lengthIn,
                      it.bagProfile.pipe.gauge),
          it.bagProfile.pipe.pcsPerPipe) ]

\* lines 210, 230: bagKg, totalPackedG
withTotalPackedG(c, s) ==
  c @@ [ bagKg |-> s.bagStandardKg,
         totalPackedG |->
           Add(Add(Add(Add(c.boxAfterPolishG, c.coverAfterPolishG), c.kundaG), c.polybagG),
               c.pipePerPcG) ]

\* withPcs with the piece count rounded to whole pieces before use
withPcs_Rounded(c) ==
  c @@ [ pcsPerBag |-> MathRound(Div(Mul(c.bagKg, N(1000)), c.totalPackedG)),
         pcs |-> MathRound(Div(Mul(c.bagKg, N(1000)), c.totalPackedG)) ]

\* lines 232-233: pcsPerBag, pcs
withPcs(c) ==
  c @@ [ pcsPerBag |-> Div(Mul(c.bagKg, N(1000)), c.totalPackedG),
         pcs |-> Div(Mul(c.bagKg, N(1000)), c.totalPackedG) ]

\* lines 236-270: the packed kg of box, cover, kunda, polybag and pipe; the
\* circle rates
withBatchKg(c, it, s) ==
  c @@ [ totalBoxKgPacked |-> Div(Mul(c.pcs, c.boxAfterPolishG), N(1000)),
         totalCoverKgPacked |-> Div(Mul(c.pcs, c.coverAfterPolishG), N(1000)),
         kundaKg |-> Div(Mul(c.pcs, c.kundaG), N(1000)),
         polybagKg |-> Div(Mul(c.pcs, c.polybagG), N(1000)),
         pipeKg |-> Div(Mul(c.pcs, c.pipePerPcG), N(1000)),
         boxCircleRate |-> resolvePartCircleRatePerKg(it.box, s),
         coverCircleRate |-> resolvePartCircleRatePerKg(it.cover, s) ]

\* lines 245-276: the part costs, the kunda, plastic and packing cost
withCosts(c, it) ==
  c @@ [ boxCostRes |->
           computePartForwardCost(c.totalBoxKgPacked, it.box, it.polish, it.packing,
                                  c.boxCircleRate),
         coverCostRes |->
           computePartForwardCost(c.totalCoverKgPacked, it.cover, it.polish, it.packing,
                                  c.coverCircleRate),
         kundaCost |-> IF it.kunda.enabled THEN Mul(c.kundaKg, it.kunda.ratePerKg) ELSE Zero,
         plasticCost |->
           Add(Mul(c.polybagKg, it.bagProfile.polybag.ratePerKg),
               Mul(c.pipeKg, it.bagProfile.pipe.ratePerKg)),
         packingCost |-> Mul(c.bagKg, it.packing.packingRatePerKg) ]

\* lines 279-290: the totals (debug) and finalCost
withTotals(c) ==
  c @@ [ circleCost |->
           Add(c.boxCostRes.components.circleCost, c.coverCostRes.components.circleCost),
         pressCost |->
           Add(c.boxCostRes.components.pressCharge, c.coverCostRes.components.pressCharge),
         inductionCost |->
           Add(c.boxCostRes.components.inductionCharge,
               c.coverCostRes.components.inductionCharge),
         polishCost |->
           Add(c.boxCostRes.components.polishCharge, c.coverCostRes.components.polishCharge),
         scrapCredit |-> Add(c.boxCostRes.flow.scrapCredit, c.coverCostRes.flow.scrapCredit),
         finalCost |->
           finalCostOf(c.boxCostRes.partCostExcludingFinalPackingCharge,
                       c.coverCostRes.partCostExcludingFinalPackingCharge,
                       c.kundaCost, c.plasticCost, c.packingCost) ]

\* withPerKgRate with finalCost taken as the rate per kg
withPerKgRate_Unscaled(c) == c @@ [ perKgRate |-> c.finalCost ]

\* line 292: perKgRate
withPerKgRate(c) == c @@ [ perKgRate |-> Div(c.finalCost, c.bagKg) ]

\* withPerPcRate from the rounded perKgRate and the rounded totalPackedG
withPerPcRate_FromRounded(c) ==
  c @@ [ perPcRate |-> Mul(r2(c.perKgRate), Div(r2(c.totalPackedG), N(1000))) ]

\* line 293: perPcRate
withPerPcRate(c) ==
  c @@ [ perPcRate |-> Mul(c.perKgRate, Div(c.totalPackedG, N(1000))) ]

\* the locals of calculate(item, settings), before the result record is built
calcLocals(it, s) ==
  withPerPcRate(withPerKgRate(withTotals(withCosts(
    withBatchKg(withPcs(withTotalPackedG(perPcWeights(it), s)), it, s), it))))

\* the CalcResult that calculate builds from its locals.  calc.ts has no throw
\* statement and reads only fields every Item and AppSettings has, so every
\* call returns: outcome is "returned"
resultOf(it, c) ==
  [ outcome |-> "returned",
    itemId |-> it.id,
    perPc |->
      [ boxG |-> r2(c.boxAfterPolishG),
        coverG |-> r2(c.coverAfterPolishG),
        kundaG |-> r2(c.kundaG),
        polybagG |-> r2(c.polybagG),
        pipeG |-> r2(c.pipePerPcG),
        totalPackedG |-> r2(c.totalPackedG) ],
    pcsPerBag |-> r2(c.pcsPerBag),
    perKgRate |-> r2(c.perKgRate),
    perPcRate |-> r2(c.perPcRate),
    debug |->
      [ bagKg |-> c.bagKg,
        pcs |-> r3(c.pcs),
        circleKgInTotal |-> r3(Add(c.boxCostRes.flow.circleKgIn, c.coverCostRes.flow.circleKgIn)),
        circleCost |-> r2(c.circleCost),
        pressCost |-> r2(c.pressCost),
        inductionCost |-> r2(c.inductionCost),
        polishCost |-> r2(c.polishCost),
        packingCost |-> r2(c.packingCost),
        kundaCost |-> r2(c.kundaCost),
        plasticCost |-> r2(c.plasticCost),
        scrapCredit |-> r2(c.scrapCredit),
        finalCost |-> r2(c.finalCost) ] ]

\* calculate keeping a running total of finalCost across calls
calculate_RunningTotal(it, s) ==
  LET fresh == resultOf(it, calcLocals(it, s))
  IN  IF calls = << >> THEN fresh
      ELSE [ fresh EXCEPT !.debug.finalCost =
                            Add(@, calls[Len(calls)].result.debug.finalCost) ]

\* calculate(item, settings)
calculate(it, s) == resultOf(it, calcLocals(it, s))

\* argsAfterCall with a disabled kunda's weight cleared in the caller's item
argsAfterCall_KundaCleared(it, s) ==
  [ item |-> IF it.kunda.enabled THEN it ELSE [it EXCEPT !.kunda.weightG = Zero],
    settings |-> s ]

\* the Item and the AppSettings objects of the caller once calculate(item,
\* settings) has returned: calculate and computePartForwardCost only read
\* their parameters, every statement is a const declaration or the return
argsAfterCall(it, s) == [item |-> it, settings |-> s]

-----------------------------------------------------------------------------
(* The inputs: values an editor field, an imported backup or a caller can hold *)

MaxEdits == 1

\* percentages: valid ones (in [0,100)) and 100 and a negative one
PctVals == {N(0), N(20), N(50), N(100), N(-50)}

\* rates per kg
RateVals == {N(0), Q(67, 500), N(1)}

\* part.circleRatePerKg as stored: absent, a non-number, or a number
CircleRateVals ==
  { [t |-> "undefined", v |-> Zero], [t |-> "string", v |-> Zero] }
    \cup { [t |-> "number", v |-> x] : x \in {NaN, Inf, N(0), N(-1), Q(67, 500), N(2)} }

\* part.induction: absent, or {enabled, ratePerKg}
NoInduction == [present |-> FALSE, enabled |-> FALSE, ratePerKg |-> Zero]

InductionVals ==
  { NoInduction }
    \cup { [present |-> TRUE, enabled |-> e, ratePerKg |-> x] :
             e \in BOOLEAN, x \in {N(0), N(1), N(-1)} }

\* the same part with one field changed
PartEdits(p) ==
  { [p EXCEPT !.circleSizeIn = x] : x \in {N(0), N(2)} }
    \cup { [p EXCEPT !.circleRatePerKg = x] : x \in CircleRateVals }
    \cup { [p EXCEPT !.press.ratePerKg = x] : x \in RateVals }
    \cup { [p EXCEPT !.press.actualWastagePct = x] : x \in PctVals }
    \cup { [p EXCEPT !.press.jobWastagePct = x] : x \in PctVals }
    \cup { [p EXCEPT !.press.tutPct = x] : x \in PctVals }
    \cup { [p EXCEPT !.press.scrapReturn.enabled = x] : x \in BOOLEAN }
    \cup { [p EXCEPT !.press.scrapReturn.ratePerKg = x] : x \in RateVals }
    \cup { [p EXCEPT !.induction = x] : x \in InductionVals }

PolishEdits(p) ==
  { [p EXCEPT !.ratePerKg = x] : x \in RateVals }
    \cup { [p EXCEPT !.wastagePct = x] : x \in PctVals }
    \cup { [p EXCEPT !.tutPct = x] : x \in PctVals }
    \cup { [p EXCEPT !.scrapReturn.enabled = x] : x \in BOOLEAN }
    \cup { [p EXCEPT !.scrapReturn.ratePerKg = x] : x \in RateVals }

PackingEdits(p) ==
  { [p EXCEPT !.packingRatePerKg = x] : x \in RateVals }
    \cup { [p EXCEPT !.tutPct = x] : x \in PctVals }
    \cup { [p EXCEPT !.scrapReturn.enabled = x] : x \in BOOLEAN }
    \cup { [p EXCEPT !.scrapReturn.ratePerKg = x] : x \in RateVals }

KundaEdits(k) ==
  { [k EXCEPT !.enabled = x] : x \in BOOLEAN }
    \cup { [k EXCEPT !.weightG = x] : x \in {N(0), N(4)} }
    \cup { [k EXCEPT !.ratePerKg = x] : x \in RateVals }

BagEdits(b) ==
  { [b EXCEPT !.polybag.gauge = x] : x \in {N(0), N(33)} }
    \cup { [b EXCEPT !.polybag.ratePerKg = x] : x \in RateVals }
    \cup { [b EXCEPT !.pipe.gauge = x] : x \in {N(0), N(33)} }
    \cup { [b EXCEPT !.pipe.pcsPerPipe = x] : x \in {N(0), N(1), N(2)} }
    \cup { [b EXCEPT !.pipe.ratePerKg = x] : x \in RateVals }

SettingsEdits(s) ==
  { [s EXCEPT !.circleBaseRate = x] : x \in {N(0), N(1)} }
    \cup { [s EXCEPT !.circleAddPerKg = x] : x \in {N(0), Q(67, 500)} }
    \cup { [s EXCEPT !.circleExtraAddPerKg = x] : x \in {N(0), N(1)} }
    \cup { [s EXCEPT !.bagStandardKg = x] : x \in {N(0), N(1), N(2)} }

\* a part with no losses: circle 2 in of 0.251 mm sheet weighs 4 g
PlainPart ==
  [ circleSizeIn |-> N(2),
    thicknessMm |-> Q(251, 1000),
    circleRatePerKg |-> [t |-> "undefined", v |-> Zero],
    press |->
      [ ratePerKg |-> Q(67, 500),
        actualWastagePct |-> N(0),
        jobWastagePct |-> N(0),
        tutPct |-> N(0),
        scrapReturn |-> [enabled |-> TRUE, ratePerKg |-> N(1)] ],
    induction |-> [present |-> TRUE, enabled |-> FALSE, ratePerKg |-> N(1)] ]

\* a part with every loss set
LossyPart ==
  [ PlainPart EXCEPT !.press.actualWastagePct = N(50),
                     !.press.jobWastagePct = N(20),
                     !.press.tutPct = N(50),
                     !.circleRatePerKg = [t |-> "number", v |-> N(2)],
                     !.induction = [present |-> TRUE, enabled |-> TRUE, ratePerKg |-> N(1)] ]

PlainItem ==
  [ id |-> "it1",
    box |-> PlainPart,
    cover |-> [PlainPart EXCEPT !.circleSizeIn = N(0)],
    kunda |-> [enabled |-> FALSE, weightG |-> N(0), ratePerKg |-> N(1)],
    bagProfile |->
      [ polybag |-> [sizeIn |-> N(10), gauge |-> N(0), ratePerKg |-> N(1)],
        pipe |-> [ widthIn |-> N(10), lengthIn |-> N(10), gauge |-> N(0),
                   pcsPerPipe |-> N(1), ratePerKg |-> N(1) ] ],
    polish |->
      [ ratePerKg |-> Q(67, 500), wastagePct |-> N(0), tutPct |-> N(0),
        scrapReturn |-> [enabled |-> TRUE, ratePerKg |-> N(1)] ],
    packing |->
      [ packingRatePerKg |-> Q(67, 500), tutPct |-> N(0),
        scrapReturn |-> [enabled |-> TRUE, ratePerKg |-> N(1)] ] ]

LossyItem ==
  [ PlainItem EXCEPT !.box = LossyPart,
                     !.cover = LossyPart,
                     !.kunda = [enabled |-> TRUE, weightG |-> N(4), ratePerKg |-> N(1)],
                     !.bagProfile.polybag.gauge = N(33),
                     !.bagProfile.pipe.gauge = N(33),
                     !.polish.wastagePct = N(20),
                     !.polish.tutPct = N(50),
                     !.packing.tutPct = N(20) ]

\* a lossless box with a kunda, under a lossy cover
MixedItem ==
  [ PlainItem EXCEPT !.cover = LossyPart,
                     !.box.circleRatePerKg = [t |-> "number", v |-> Q(67, 500)],
                     !.kunda = [enabled |-> TRUE, weightG |-> N(4), ratePerKg |-> Q(67, 500)],
                     !.bagProfile.pipe.gauge = N(33),
                     !.bagProfile.pipe.pcsPerPipe = N(2),
                     !.polish.tutPct = N(20),
                     !.packing.scrapReturn.enabled = FALSE ]

BaseItems == {PlainItem, LossyItem, MixedItem}

BaseSettings ==
  [ circleBaseRate |-> N(0),
    circleAddPerKg |-> Q(67, 500),
    circleExtraAddPerKg |-> N(0),
    bagStandardKg |-> N(1) ]

-----------------------------------------------------------------------------
(* The editor and the calculator: src/src/ui/App.tsx *)

\* result = useMemo(() => selected ? calculate(selected, settings) : null)
\* (locals holds the locals of that call, from which the result is built)
Recalculated ==
  /\ locals' = calcLocals(item', settings')
  /\ result' = resultOf(item', locals')

Init ==
  /\ item \in BaseItems
  /\ settings = BaseSettings
  /\ locals = calcLocals(item, settings)
  /\ result = resultOf(item, locals)
  /\ edits = 0
  /\ calls = << >>
  /\ weighed = << >>
  /\ AppIdle
  /\ LocalIdle

EditBox ==
  /\ edits < MaxEdits
  /\ \E p \in PartEdits(item.box) : item' = [item EXCEPT !.box = p]
  /\ edits' = edits + 1
  /\ UNCHANGED settings
  /\ Recalculated
  /\ UNCHANGED <<callVars, appVars, localVars>>

EditCover ==
  /\ edits < MaxEdits
  /\ \E p \in PartEdits(item.cover) : item' = [item EXCEPT !.cover = p]
  /\ edits' = edits + 1
  /\ UNCHANGED settings
  /\ Recalculated
  /\ UNCHANGED <<callVars, appVars, localVars>>

EditPolish ==
  /\ edits < MaxEdits
  /\ \E p \in PolishEdits(item.polish) : item' = [item EXCEPT !.polish = p]
  /\ edits' = edits + 1
  /\ UNCHANGED settings
  /\ Recalculated
  /\ UNCHANGED <<callVars, appVars, localVars>>

EditPacking ==
  /\ edits < MaxEdits
  /\ \E p \in PackingEdits(item.packing) : item' = [item EXCEPT !.packing = p]
  /\ edits' = edits + 1
  /\ UNCHANGED settings
  /\ Recalculated
  /\ UNCHANGED <<callVars, appVars, localVars>>

EditKunda ==
  /\ edits < MaxEdits
  /\ \E k \in KundaEdits(item.kunda) : item' = [item EXCEPT !.kunda = k]
  /\ edits' = edits + 1
  /\ UNCHANGED settings
  /\ Recalculated
  /\ UNCHANGED <<callVars, appVars, localVars>>

EditBag ==
  /\ edits < MaxEdits
  /\ \E b \in BagEdits(item.bagProfile) : item' = [item EXCEPT !.bagProfile = b]
  /\ edits' = edits + 1
  /\ UNCHANGED settings
  /\ Recalculated
  /\ UNCHANGED <<callVars, appVars, localVars>>

\* onSaveSettings(s)
EditSettings ==
  /\ edits < MaxEdits
  /\ \E s \in SettingsEdits(settings) : settings' = s
  /\ edits' = edits + 1
  /\ UNCHANGED item
  /\ Recalculated
  /\ UNCHANGED <<callVars, appVars, localVars>>

Next ==
  \/ EditBox
  \/ EditCover
  \/ EditPolish
  \/ EditPacking
  \/ EditKunda
  \/ EditBag
  \/ EditSettings

Spec == Init /\ [][Next]_vars

TypeOK ==
  /\ result.outcome = "returned"
  /\ edits \in 0..MaxEdits

-----------------------------------------------------------------------------
(* Callers of calc.ts *)

\* how many calls of calculate are followed
MaxCalls == 3

\* the arguments callers pass: items that share an id and differ in content,
\* under two settings
CallArgs ==
  { [item |-> PlainItem, settings |-> BaseSettings],
    [item |-> [PlainItem EXCEPT !.kunda.weightG = N(4)], settings |-> BaseSettings],
    [item |-> LossyItem, settings |-> BaseSettings],
    [item |-> LossyItem, settings |-> [BaseSettings EXCEPT !.bagStandardKg = N(2)]] }

\* circle diameters (inches) and sheet thicknesses (mm) callers weigh
DiameterVals == {N(0), Q(1, 2), N(2), N(7)}
ThicknessVals == {N(0), Q(251, 1000), Q(13, 50), Q(33, 100), N(1)}

InitCalls ==
  /\ item = PlainItem
  /\ settings = BaseSettings
  /\ locals = calcLocals(item, settings)
  /\ result = resultOf(item, locals)
  /\ edits = 0
  /\ calls = << >>
  /\ weighed = << >>
  /\ AppIdle
  /\ LocalIdle

\* a caller calls calculate(a.item, a.settings); the call runs to its return.
\* The record keeps the arguments as passed, the caller's objects after the
\* return, the CalcResult and the identity of the object literal returned.
Call ==
  /\ Len(calls) < MaxCalls
  /\ \E a \in CallArgs :
       calls' = Append(calls,
                  [ item |-> a.item,
                    settings |-> a.settings,
                    after |-> argsAfterCall(a.item, a.settings),
                    result |-> calculate(a.item, a.settings),
                    ref |-> Len(calls) + 1 ])
  /\ UNCHANGED <<item, settings, result, locals, edits, weighed>>
  /\ UNCHANGED <<appVars, localVars>>

\* a caller calls circleWeightG(circleIn, thicknessMm)
Weigh ==
  /\ \E d \in DiameterVals, t \in ThicknessVals :
       weighed' = << [circleIn |-> d, thicknessMm |-> t, g |-> circleWeightG(d, t)] >>
  /\ UNCHANGED <<item, settings, result, locals, edits, calls>>
  /\ UNCHANGED <<appVars, localVars>>

NextCalls ==
  \/ Call
  \/ Weigh

SpecCalls == InitCalls /\ [][NextCalls]_vars

-----------------------------------------------------------------------------
(* Vocabulary of the properties *)

Parts == {"box", "cover"}

PartOf(it, w) == IF w = "box" THEN it.box ELSE it.cover

\* the computePartForwardCost result of part w in the last call
CostResOf(w) == IF w = "box" THEN locals.boxCostRes ELSE locals.coverCostRes

\* the final batch mass of part w in the last call
PackedKgOf(w) == IF w = "box" THEN locals.totalBoxKgPacked ELSE locals.totalCoverKgPacked

\* a percentage in [0,100)
IsPct(x) == IsFinite(x) /\ Le(Zero, x) /\ Lt(x, N(100))

\* a finite number >= 0
IsNonNeg(x) == IsFinite(x) /\ Le(Zero, x)

\* 1 - x/100 as a loss-free fraction
Keep(x) == Sub(One, pct(x))

\* every number of a CalcResult
ResultNumbers(r) ==
  { r.perPc.boxG, r.perPc.coverG, r.perPc.kundaG, r.perPc.polybagG, r.perPc.pipeG,
    r.perPc.totalPackedG, r.pcsPerBag, r.perKgRate, r.perPcRate,
    r.debug.bagKg, r.debug.pcs, r.debug.circleKgInTotal, r.debug.circleCost,
    r.debug.pressCost, r.debug.inductionCost, r.debug.polishCost, r.debug.packingCost,
    r.debug.kundaCost, r.debug.plasticCost, r.debug.scrapCredit, r.debug.finalCost }

ResultFinite(r) == \A x \in ResultNumbers(r) : IsFinite(x)

\* some stage's combined loss fraction is >= 1
FullLoss(it) ==
  \/ Le(N(100), it.packing.tutPct)
  \/ Le(Mul(Keep(it.polish.tutPct), Keep(it.polish.wastagePct)), Zero)
  \/ \E w \in Parts :
       Le(Mul(Keep(PartOf(it, w).press.tutPct), Keep(PartOf(it, w).press.jobWastagePct)), Zero)

PartPcts(p) == {p.press.actualWastagePct, p.press.jobWastagePct, p.press.tutPct}

PartAmounts(p) ==
  { p.circleSizeIn, p.thicknessMm, p.press.ratePerKg, p.press.scrapReturn.ratePerKg }
    \cup (IF p.induction.present THEN {p.induction.ratePerKg} ELSE {})
    \cup (IF p.circleRatePerKg.t = "number" THEN {p.circleRatePerKg.v} ELSE {})

\* every percentage of the input
InputPcts(it) ==
  PartPcts(it.box) \cup PartPcts(it.cover)
    \cup {it.polish.wastagePct, it.polish.tutPct, it.packing.tutPct}

\* every rate, mass and dimension of the input, bagStandardKg apart
InputAmounts(it, s) ==
  PartAmounts(it.box) \cup PartAmounts(it.cover)
    \cup { it.kunda.weightG, it.kunda.ratePerKg,
           it.bagProfile.polybag.sizeIn, it.bagProfile.polybag.gauge,
           it.bagProfile.polybag.ratePerKg,
           it.bagProfile.pipe.widthIn, it.bagProfile.pipe.lengthIn,
           it.bagProfile.pipe.gauge, it.bagProfile.pipe.pcsPerPipe,
           it.bagProfile.pipe.ratePerKg,
           it.polish.ratePerKg, it.polish.scrapReturn.ratePerKg,
           it.packing.packingRatePerKg, it.packing.scrapReturn.ratePerKg,
           s.circleBaseRate, s.circleAddPerKg, s.circleExtraAddPerKg }

\* the data-model invariants: percentages in [0,100), rates, masses and
\* dimensions non-negative, bagStandardKg > 0, an explicit circle rate absent
\* or a number
ValidInput(it, s) ==
  /\ \A x \in InputPcts(it) : IsPct(x)
  /\ \A x \in InputAmounts(it, s) : IsNonNeg(x)
  /\ \A w \in Parts : PartOf(it, w).circleRatePerKg.t \in {"undefined", "number"}
  /\ IsFinite(s.bagStandardKg) /\ Gt(s.bagStandardKg, Zero)

\* a numeric field is non-finite or outside its range: a percentage negative
\* or >= 100, a negative rate or dimension, bagStandardKg <= 0
InvalidInput(it, s) ==
  \/ \E x \in InputPcts(it) : ~IsPct(x)
  \/ \E x \in InputAmounts(it, s) : ~IsNonNeg(x)
  \/ ~(IsFinite(s.bagStandardKg) /\ Gt(s.bagStandardKg, Zero))

-----------------------------------------------------------------------------
(* C1 *)

\* C1: whenever some stage's combined loss fraction is >= 1 (packing tut% >=
\* 100, or polish (1-tut)(1-wastage) <= 0, or press (1-tut)(1-jobWastage) <= 0
\* for box or cover), calculate fails with a domain error: it returns no
\* CalcResult, and so none with an Infinity or NaN field.
C1_FullLossIsDomainError ==
  FullLoss(item) => (result.outcome = "domain_error" /\ ResultFinite(result))

-----------------------------------------------------------------------------
(* C2 *)

\* C2: whenever a numeric field of the input is non-finite or outside its
\* valid range, calculate rejects the input with a validation error and
\* produces no result.
C2_InvalidInputIsRejected ==
  InvalidInput(item, settings) => result.outcome = "validation_error"

-----------------------------------------------------------------------------
(* C3 *)

\* C3: for every input that satisfies the data-model invariants, zero circle
\* sizes, a zero total packed mass and pcsPerPipe = 0 included, every numeric
\* field of the returned CalcResult is finite.
C3_ValidInputGivesFiniteResult ==
  ValidInput(item, settings) => ResultFinite(result)

-----------------------------------------------------------------------------
(* C4 *)

\* |x|
AbsNum(x) == IF Lt(x, Zero) THEN Neg(x) ELSE x

\* circleCost + pressCost + inductionCost + polishCost + packingCost + kundaCost
\* + plasticCost - scrapCredit, on the rounded fields of a CalcResult
DebugSum(r) ==
  Sub(Add(Add(Add(Add(Add(Add(r.debug.circleCost, r.debug.pressCost), r.debug.inductionCost),
                      r.debug.polishCost), r.debug.packingCost), r.debug.kundaCost),
          r.debug.plasticCost),
      r.debug.scrapCredit)

\* how far the reported finalCost is from the sum of the reported components
FinalCostGap(r) == AbsNum(Sub(r.debug.finalCost, DebugSum(r)))

\* a valid input whose piece has a mass and whose pipe serves at least one piece
FiniteCase(it, s) ==
  /\ ValidInput(it, s)
  /\ Gt(it.bagProfile.pipe.pcsPerPipe, Zero)
  /\ Gt(calcLocals(it, s).totalPackedG, Zero)

\* C4 as claimed: for every valid input the reported finalCost is within 0.01
\* of the sum of the reported debug components minus the reported scrapCredit.
C4_FinalCostWithinOneCent ==
  ValidInput(item, settings) => Le(FinalCostGap(result), Q(1, 100))

\* C4 as amended: for every valid input with pcsPerPipe > 0 and a positive
\* total packed mass the result is finite and the reported finalCost is less
\* than 0.045 away from the sum of the reported components minus scrapCredit
\* (nine independent 2-decimal roundings, each off by at most 0.005).
C4_FinalCostWithinNineRoundings ==
  FiniteCase(item, settings) =>
    (ResultFinite(result) /\ Lt(FinalCostGap(result), Q(45, 1000)))

\* a valid input whose reported components miss the reported finalCost by more
\* than 0.01
C4_Witness ==
  /\ FiniteCase(item, settings)
  /\ Gt(FinalCostGap(result), Q(1, 100))

-----------------------------------------------------------------------------
(* C5 *)

\* the five loss percentages that act on part w are all in [0,100)
LossPctsValid(it, w) ==
  /\ IsPct(it.packing.tutPct)
  /\ IsPct(it.polish.tutPct) /\ IsPct(it.polish.wastagePct)
  /\ IsPct(PartOf(it, w).press.tutPct) /\ IsPct(PartOf(it, w).press.jobWastagePct)

\* target masses tried beside the batch mass of the state
MassGrid == {N(0), N(1), Q(7, 3)}

\* x sent forward through press, polish and packing, by the stage formula
\* output = input * (1 - lossA) * (1 - lossB)
ForwardThrough(x, it, w) ==
  LET afterPress ==
        Mul(Mul(x, Keep(PartOf(it, w).press.tutPct)), Keep(PartOf(it, w).press.jobWastagePct))
      afterPolish == Mul(Mul(afterPress, Keep(it.polish.tutPct)), Keep(it.polish.wastagePct))
  IN  Mul(afterPolish, Keep(it.packing.tutPct))

\* the round trip of target mass F through the solver for part w
RoundTrips(F, it, w) ==
  LET f == quantityFlow(F, PartOf(it, w), it.polish, it.packing)
  IN  /\ Eq(ForwardThrough(f.pressInputCircleKg, it, w), F)
      /\ Eq(f.pressDeliveredKalaKg, f.polishInputKalaKg)
      /\ Eq(f.polishDeliveredKg, f.packingInputKg)
      /\ Eq(Mul(f.packingInputKg, Keep(it.packing.tutPct)), F)

\* C5: round-trip law of the yield solver.  For loss fractions in [0,1) and a
\* target final mass F, the computed press input sent forward through press,
\* polish and packing reproduces F; the press output equals the polish input
\* and the polish output equals the packing input.
C5_RoundTrip ==
  \A w \in Parts :
    LossPctsValid(item, w) =>
      /\ IsFinite(PackedKgOf(w)) =>
           /\ RoundTrips(PackedKgOf(w), item, w)
           /\ Eq(CostResOf(w).flow.kalaKgOut, CostResOf(w).stages.polishInputKalaKg)
           /\ Eq(CostResOf(w).flow.polishKgOut, CostResOf(w).stages.packingInputKg)
      /\ \A F \in MassGrid : RoundTrips(F, item, w)

\* a part with a positive batch mass and all five losses positive
C5_Witness ==
  \E w \in Parts :
    /\ LossPctsValid(item, w)
    /\ IsFinite(PackedKgOf(w)) /\ Gt(PackedKgOf(w), Zero)
    /\ Gt(item.packing.tutPct, Zero)
    /\ Gt(item.polish.tutPct, Zero) /\ Gt(item.polish.wastagePct, Zero)
    /\ Gt(PartOf(item, w).press.tutPct, Zero)
    /\ Gt(PartOf(item, w).press.jobWastagePct, Zero)
    /\ Gt(CostResOf(w).flow.circleKgIn, PackedKgOf(w))

-----------------------------------------------------------------------------
(* C6 *)

\* percentages in [0,100) a loss can be raised to
PctGrid == {N(20), N(50), Q(199, 2)}

Raised(x) == {y \in PctGrid : Lt(x, y)}

\* the item with one of the five loss percentages of part w raised
RaisedItems(it, w) ==
  { [it EXCEPT !.packing.tutPct = y] : y \in Raised(it.packing.tutPct) }
    \cup { [it EXCEPT !.polish.tutPct = y] : y \in Raised(it.polish.tutPct) }
    \cup { [it EXCEPT !.polish.wastagePct = y] : y \in Raised(it.polish.wastagePct) }
    \cup (IF w = "box"
          THEN { [it EXCEPT !.box.press.tutPct = y] : y \in Raised(it.box.press.tutPct) }
                 \cup { [it EXCEPT !.box.press.jobWastagePct = y] :
                          y \in Raised(it.box.press.jobWastagePct) }
          ELSE { [it EXCEPT !.cover.press.tutPct = y] : y \in Raised(it.cover.press.tutPct) }
                 \cup { [it EXCEPT !.cover.press.jobWastagePct = y] :
                          y \in Raised(it.cover.press.jobWastagePct) })

\* the press input (circle) mass the solver requires for final mass F of part w
PressInputFor(F, it, w) ==
  pressInputCircleKgOf(
    polishInputKalaKgOf(packingInputKgOf(F, it.packing), it.polish),
    PartOf(it, w).press)

\* C6 as claimed: for a fixed target final output mass, raising any one of
\* packing tut%, polish tut%, polish wastage%, press tut% or press
\* job-wastage% within [0,100) strictly increases the required press input.
C6_RaisingLossRaisesInput ==
  \A w \in Parts :
    (LossPctsValid(item, w) /\ IsNonNeg(PackedKgOf(w))) =>
      \A it2 \in RaisedItems(item, w) :
        Lt(CostResOf(w).flow.circleKgIn, PressInputFor(PackedKgOf(w), it2, w))

\* C6 as amended: for a fixed positive target final output mass, raising any
\* one of the five loss percentages within [0,100) strictly increases the
\* required press input; for a target of 0 the required press input is 0
\* whatever the percentages.
C6_RaisingLossRaisesInputOfPositiveMass ==
  \A w \in Parts :
    (LossPctsValid(item, w) /\ IsNonNeg(PackedKgOf(w))) =>
      \A it2 \in RaisedItems(item, w) :
        IF Gt(PackedKgOf(w), Zero)
        THEN Lt(CostResOf(w).flow.circleKgIn, PressInputFor(PackedKgOf(w), it2, w))
        ELSE /\ CostResOf(w).flow.circleKgIn = Zero
             /\ PressInputFor(PackedKgOf(w), it2, w) = Zero

\* a part with a positive batch mass of which each of the five losses can be
\* raised
C6_Witness ==
  \E w \in Parts :
    /\ LossPctsValid(item, w)
    /\ IsFinite(PackedKgOf(w)) /\ Gt(PackedKgOf(w), Zero)
    /\ Cardinality(RaisedItems(item, w)) >= 5
    /\ Gt(PartOf(item, w).press.jobWastagePct, Zero)

-----------------------------------------------------------------------------
(* C7 *)

\* induction absent, disabled, or enabled with rate 0
NoChargeForms ==
  { NoInduction,
    [present |-> TRUE, enabled |-> FALSE, ratePerKg |-> N(1)],
    [present |-> TRUE, enabled |-> TRUE, ratePerKg |-> N(0)] }

\* induction enabled with a positive rate
ChargeForms == { [present |-> TRUE, enabled |-> TRUE, ratePerKg |-> N(1)] }

WithInduction(it, w, v) ==
  IF w = "box" THEN [it EXCEPT !.box.induction = v] ELSE [it EXCEPT !.cover.induction = v]

\* the result with the fields an induction charge may change set aside
WithoutChargedFields(r) ==
  [ r EXCEPT !.perKgRate = Zero, !.perPcRate = Zero,
             !.debug.inductionCost = Zero, !.debug.finalCost = Zero ]

\* C7: a part whose induction record is absent, disabled or of rate 0
\* contributes exactly 0 to inductionCost, and the CalcResult is the same for
\* each of these three forms; against the result with induction enabled at a
\* positive rate only inductionCost, finalCost and the two rates differ, and
\* finalCost, perKgRate and perPcRate differ by the induction charge (press
\* output x induction rate) alone.
C7_NoChargeInductionChangesNothing ==
  \A w \in Parts :
    PartOf(item, w).induction \in NoChargeForms =>
      /\ CostResOf(w).components.inductionCharge = Zero
      /\ CostResOf(w).flow.costInduction = Zero
      /\ \A v \in NoChargeForms : calculate(WithInduction(item, w, v), settings) = result
      /\ \A v \in ChargeForms :
           LET alt == calcLocals(WithInduction(item, w, v), settings)
               charge == Mul(CostResOf(w).flow.kalaKgOut, v.ratePerKg)
           IN  /\ WithoutChargedFields(resultOf(item, alt)) = WithoutChargedFields(result)
               /\ ResultFinite(result) =>
                    /\ alt.inductionCost = Add(locals.inductionCost, charge)
                    /\ alt.finalCost = Add(locals.finalCost, charge)
                    /\ alt.perKgRate = Add(locals.perKgRate, Div(charge, locals.bagKg))
                    /\ alt.perPcRate =
                         Add(locals.perPcRate,
                             Mul(Div(charge, locals.bagKg), Div(locals.totalPackedG, N(1000))))

\* a part with a positive batch mass whose induction is in a no-charge form
\* while a rate is stored, in an item with a finite result
C7_Witness ==
  /\ ResultFinite(result)
  /\ \E w \in Parts :
       /\ PartOf(item, w).induction.present
       /\ ~PartOf(item, w).induction.enabled
       /\ Gt(PartOf(item, w).induction.ratePerKg, Zero)
       /\ Gt(CostResOf(w).flow.kalaKgOut, Zero)

-----------------------------------------------------------------------------
(* C8 *)

\* the circle rate calculate resolved for part w in the last call
CircleRateOf(w) == IF w = "box" THEN locals.boxCircleRate ELSE locals.coverCircleRate

\* every tut, wastage, job-wastage and actual-wastage percentage that acts on
\* part w is 0
AllLossZero(it, w) ==
  /\ it.packing.tutPct = Zero
  /\ it.polish.tutPct = Zero /\ it.polish.wastagePct = Zero
  /\ PartOf(it, w).press.tutPct = Zero
  /\ PartOf(it, w).press.jobWastagePct = Zero
  /\ PartOf(it, w).press.actualWastagePct = Zero

\* C8: when every tut, wastage, job-wastage and actual-wastage percentage is
\* 0, for each part the press input mass, the press output, the polish output
\* and the final batch mass are all the same value, circleCost = batch mass x
\* circle rate, press charge = batch mass x press rate, polish charge = batch
\* mass x polish rate, and (the batch mass being a finite number) the scrap
\* credit of every stage and the scrap mass are 0, also with scrap return
\* enabled at a positive rate.
C8_ZeroLossIsRateTimesMass ==
  \A w \in Parts :
    AllLossZero(item, w) =>
      LET res == CostResOf(w)
          F == PackedKgOf(w)
      IN  /\ res.flow.circleKgIn = F
          /\ res.flow.kalaKgOut = F
          /\ res.flow.polishKgOut = F
          /\ res.flow.packedKgOut = F
          /\ res.stages.packingInputKg = F
          /\ res.stages.polishInputKalaKg = F
          /\ res.components.circleCost = Mul(F, CircleRateOf(w))
          /\ res.components.pressCharge = Mul(F, PartOf(item, w).press.ratePerKg)
          /\ res.components.polishCharge = Mul(F, item.polish.ratePerKg)
          /\ IsFinite(F) =>
               /\ res.components.scrapCreditPress = Zero
               /\ res.components.scrapCreditPolish = Zero
               /\ res.components.scrapCreditPacking = Zero
               /\ res.flow.scrapCredit = Zero
               /\ res.flow.scrapKg = Zero

\* a part without any loss and with a positive batch mass, of which all three
\* stages return scrap at a positive rate and bill at a positive rate
C8_Witness ==
  \E w \in Parts :
    /\ AllLossZero(item, w)
    /\ IsFinite(PackedKgOf(w)) /\ Gt(PackedKgOf(w), Zero)
    /\ PartOf(item, w).press.scrapReturn.enabled
    /\ Gt(PartOf(item, w).press.scrapReturn.ratePerKg, Zero)
    /\ item.polish.scrapReturn.enabled /\ Gt(item.polish.scrapReturn.ratePerKg, Zero)
    /\ item.packing.scrapReturn.enabled /\ Gt(item.packing.scrapReturn.ratePerKg, Zero)
    /\ Gt(CostResOf(w).components.circleCost, Zero)
    /\ Gt(CostResOf(w).components.pressCharge, Zero)
    /\ Gt(CostResOf(w).components.polishCharge, Zero)

-----------------------------------------------------------------------------
(* C9 *)

\* the part's own circleRatePerKg is present, a finite number and > 0
HasOwnRate(p) ==
  /\ p.circleRatePerKg.t = "number"
  /\ IsFinite(p.circleRatePerKg.v)
  /\ Gt(p.circleRatePerKg.v, Zero)

\* circleBaseRate + circleAddPerKg + circleExtraAddPerKg
SettingsRate(s) == Add(Add(s.circleBaseRate, s.circleAddPerKg), s.circleExtraAddPerKg)

\* C9: the circle rate used for a part is the part's own circleRatePerKg when
\* that is present, a finite number and > 0, and circleBaseRate +
\* circleAddPerKg + circleExtraAddPerKg of the settings in every other case
\* (absent, zero, negative, non-finite, not a number); each part is resolved
\* from its own field alone, and calculate charges the press input mass at
\* exactly that rate, with no further offset.
C9_CircleRateResolution ==
  /\ \A w \in Parts :
       LET own == PartOf(item, w).circleRatePerKg
           rate == IF HasOwnRate(PartOf(item, w)) THEN own.v ELSE SettingsRate(settings)
       IN  /\ CircleRateOf(w) = rate
           /\ CostResOf(w).components.circleCost = Mul(CostResOf(w).flow.circleKgIn, rate)
           /\ \A x \in CircleRateVals :
                resolvePartCircleRatePerKg([PartOf(item, w) EXCEPT !.circleRatePerKg = x],
                                           settings)
                  = IF x.t = "number" /\ IsFinite(x.v) /\ Gt(x.v, Zero)
                    THEN x.v
                    ELSE SettingsRate(settings)
  /\ locals.circleCost
       = Add(locals.boxCostRes.components.circleCost, locals.coverCostRes.components.circleCost)
  /\ result.debug.circleCost = r2(locals.circleCost)

\* one part is charged at its own rate while the other, which stores a number
\* that is not a finite positive one, is charged at the rate of the settings
C9_Witness ==
  \E w \in Parts, u \in Parts :
    /\ w # u
    /\ HasOwnRate(PartOf(item, w))
    /\ CircleRateOf(w) = PartOf(item, w).circleRatePerKg.v
    /\ PartOf(item, u).circleRatePerKg.t = "number"
    /\ ~HasOwnRate(PartOf(item, u))
    /\ CircleRateOf(u) = SettingsRate(settings)
    /\ CircleRateOf(u) # CircleRateOf(w)
    /\ IsFinite(CostResOf(u).components.circleCost)
    /\ Gt(CostResOf(u).components.circleCost, Zero)

-----------------------------------------------------------------------------
(* C10 *)

\* the stage formula output = input * (1 - lossA) * (1 - lossB)
StageOutput(input, lossA, lossB) == Mul(Mul(input, Keep(lossA)), Keep(lossB))

\* C10: every paid stage is billed on the mass it delivers back.  For each
\* part pressCharge = press output x press rate, inductionCharge = press
\* output x induction rate when induction is enabled at a positive rate,
\* polishCharge = polish output x polish rate, and circleCost = press input x
\* circle rate.  For loss percentages in [0,100) and a finite batch mass the
\* press output is the stage output of the press input and equals the polish
\* input, the polish output is the stage output of the polish input and
\* equals the packing input; with a positive mass, rate and loss each stage
\* charge is strictly less than the same rate on the mass sent into the stage.
C10_StagesBilledOnDeliveredMass ==
  \A w \in Parts :
    LET res == CostResOf(w)
        p == PartOf(item, w)
        charged == p.induction.present /\ p.induction.enabled
                     /\ Gt(p.induction.ratePerKg, Zero)
        pressLoss == Gt(p.press.tutPct, Zero) \/ Gt(p.press.jobWastagePct, Zero)
        polishLoss == Gt(item.polish.tutPct, Zero) \/ Gt(item.polish.wastagePct, Zero)
    IN  /\ res.components.pressCharge = Mul(res.flow.kalaKgOut, p.press.ratePerKg)
        /\ res.components.inductionCharge
             = IF charged THEN Mul(res.flow.kalaKgOut, p.induction.ratePerKg) ELSE Zero
        /\ res.components.polishCharge = Mul(res.flow.polishKgOut, item.polish.ratePerKg)
        /\ res.components.circleCost = Mul(res.flow.circleKgIn, CircleRateOf(w))
        /\ (LossPctsValid(item, w) /\ IsFinite(PackedKgOf(w))) =>
             /\ Eq(res.flow.kalaKgOut,
                   StageOutput(res.flow.circleKgIn, p.press.tutPct, p.press.jobWastagePct))
             /\ Eq(res.flow.kalaKgOut, res.stages.polishInputKalaKg)
             /\ Eq(res.flow.polishKgOut,
                   StageOutput(res.stages.polishInputKalaKg, item.polish.tutPct,
                               item.polish.wastagePct))
             /\ Eq(res.flow.polishKgOut, res.stages.packingInputKg)
             /\ (Gt(PackedKgOf(w), Zero) /\ pressLoss) =>
                  /\ Gt(p.press.ratePerKg, Zero) =>
                       Lt(res.components.pressCharge,
                          Mul(res.flow.circleKgIn, p.press.ratePerKg))
                  /\ charged =>
                       Lt(res.components.inductionCharge,
                          Mul(res.flow.circleKgIn, p.induction.ratePerKg))
             /\ (Gt(PackedKgOf(w), Zero) /\ polishLoss /\ Gt(item.polish.ratePerKg, Zero)) =>
                  Lt(res.components.polishCharge,
                     Mul(res.stages.polishInputKalaKg, item.polish.ratePerKg))

\* a part with press and polish losses and a positive batch mass, pressed,
\* inducted and polished at positive rates
C10_Witness ==
  \E w \in Parts :
    /\ LossPctsValid(item, w)
    /\ IsFinite(PackedKgOf(w)) /\ Gt(PackedKgOf(w), Zero)
    /\ Gt(PartOf(item, w).press.tutPct, Zero)
    /\ Gt(PartOf(item, w).press.jobWastagePct, Zero)
    /\ Gt(item.polish.tutPct, Zero)
    /\ Gt(PartOf(item, w).press.ratePerKg, Zero)
    /\ Gt(item.polish.ratePerKg, Zero)
    /\ PartOf(item, w).induction.enabled
    /\ Gt(CostResOf(w).components.inductionCharge, Zero)
    /\ Lt(CostResOf(w).flow.kalaKgOut, CostResOf(w).flow.circleKgIn)
    /\ Lt(CostResOf(w).flow.polishKgOut, CostResOf(w).stages.polishInputKalaKg)

-----------------------------------------------------------------------------
(* C11 *)

\* circleCost + pressCharge + inductionCharge + polishCharge of a part
GrossPartCost(c) ==
  Add(Add(Add(c.circleCost, c.pressCharge), c.inductionCharge), c.polishCharge)

\* packing input x packing tut fraction x scrap rate when scrap return is
\* enabled, else 0
PackingScrapCredit(packingInputKg, packing) ==
  IF packing.scrapReturn.enabled
  THEN Mul(Mul(packingInputKg, pct(packing.tutPct)), packing.scrapReturn.ratePerKg)
  ELSE Zero

\* C11: the packing charge is bagStandardKg x packingRatePerKg, whatever the
\* box and cover masses and the packing tut% are; it enters finalCost once and
\* no part's cost.  The packing scrap credit is computed for box and for
\* cover, each on its own packing input (packing input x packing tut fraction
\* x scrap rate when scrap return is enabled), and is subtracted inside the
\* part's cost.
C11_PackingChargedOncePerBatch ==
  /\ locals.packingCost = Mul(settings.bagStandardKg, item.packing.packingRatePerKg)
  /\ result.debug.packingCost = r2(locals.packingCost)
  /\ locals.finalCost
       = Add(Add(Add(Add(locals.boxCostRes.partCostExcludingFinalPackingCharge,
                         locals.coverCostRes.partCostExcludingFinalPackingCharge),
                     locals.kundaCost), locals.plasticCost),
             Mul(settings.bagStandardKg, item.packing.packingRatePerKg))
  /\ \A w \in Parts :
       LET res == CostResOf(w)
           credit == PackingScrapCredit(res.stages.packingInputKg, item.packing)
       IN  /\ res.components.scrapCreditPacking = credit
           /\ res.partCostExcludingFinalPackingCharge
                = Sub(GrossPartCost(res.components),
                      Add(Add(res.components.scrapCreditPress,
                              res.components.scrapCreditPolish), credit))

\* a batch with a packing charge, in which box and cover have different
\* positive packing scrap credits
C11_Witness ==
  /\ ResultFinite(result)
  /\ Gt(locals.packingCost, Zero)
  /\ item.packing.scrapReturn.enabled
  /\ Gt(locals.boxCostRes.components.scrapCreditPacking, Zero)
  /\ Gt(locals.coverCostRes.components.scrapCreditPacking, Zero)
  /\ locals.boxCostRes.components.scrapCreditPacking
       # locals.coverCostRes.components.scrapCreditPacking

-----------------------------------------------------------------------------
(* C12 *)

\* C12: before rounding, finalCost = boxCost + coverCost + kundaCost +
\* plasticCost + packingCost, where the cost of box and of cover is its gross
\* cost less its scrap credits; perKgRate = finalCost / bagStandardKg and
\* perPcRate = perKgRate x totalPackedG / 1000; the result carries the
\* roundings of these three.
C12_FinalCostAndRates ==
  /\ \A w \in Parts :
       CostResOf(w).partCostExcludingFinalPackingCharge
         = Sub(GrossPartCost(CostResOf(w).components), CostResOf(w).flow.scrapCredit)
  /\ locals.finalCost
       = Add(Add(Add(Add(locals.boxCostRes.partCostExcludingFinalPackingCharge,
                         locals.coverCostRes.partCostExcludingFinalPackingCharge),
                     locals.kundaCost), locals.plasticCost), locals.packingCost)
  /\ locals.perKgRate = Div(locals.finalCost, settings.bagStandardKg)
  /\ locals.perPcRate = Div(Mul(locals.perKgRate, locals.totalPackedG), N(1000))
  /\ result.debug.finalCost = r2(locals.finalCost)
  /\ result.perKgRate = r2(locals.perKgRate)
  /\ result.perPcRate = r2(locals.perPcRate)

\* a bag standard other than 1 kg, every one of the five costs positive, a
\* positive scrap credit
C12_Witness ==
  /\ ResultFinite(result)
  /\ settings.bagStandardKg # One
  /\ \A w \in Parts : Gt(CostResOf(w).partCostExcludingFinalPackingCharge, Zero)
  /\ Gt(locals.kundaCost, Zero) /\ Gt(locals.plasticCost, Zero)
  /\ Gt(locals.packingCost, Zero) /\ Gt(locals.scrapCredit, Zero)
  /\ locals.perKgRate # locals.finalCost
  /\ locals.perPcRate # locals.perKgRate

-----------------------------------------------------------------------------
(* C13 *)

\* bagStandardKg x 1000 / totalPackedG, unrounded
PiecesPerBag == Div(Mul(settings.bagStandardKg, N(1000)), locals.totalPackedG)

\* the batch mass in kg of pieces that weigh g grams each
BatchKg(pieces, g) == Div(Mul(pieces, g), N(1000))

\* C13: piecesPerBag is bagStandardKg x 1000 / totalPackedG unrounded, and
\* the box, cover, kunda, polybag and pipe batch masses are derived from this
\* unrounded value; the result carries its 2-decimal rounding as pcsPerBag and
\* its 3-decimal rounding as debug.pcs.
C13_UnroundedPiecesPerBag ==
  /\ locals.pcsPerBag = PiecesPerBag
  /\ locals.pcs = PiecesPerBag
  /\ locals.totalBoxKgPacked = BatchKg(PiecesPerBag, locals.boxAfterPolishG)
  /\ locals.totalCoverKgPacked = BatchKg(PiecesPerBag, locals.coverAfterPolishG)
  /\ locals.kundaKg = BatchKg(PiecesPerBag, locals.kundaG)
  /\ locals.polybagKg = BatchKg(PiecesPerBag, locals.polybagG)
  /\ locals.pipeKg = BatchKg(PiecesPerBag, locals.pipePerPcG)
  /\ locals.boxCostRes.flow.packedKgOut = BatchKg(PiecesPerBag, locals.boxAfterPolishG)
  /\ locals.coverCostRes.flow.packedKgOut = BatchKg(PiecesPerBag, locals.coverAfterPolishG)
  /\ result.pcsPerBag = r2(PiecesPerBag)
  /\ result.debug.pcs = r3(PiecesPerBag)

\* a piece count that neither rounding leaves as it is, with batch masses
\* that the rounded counts would not give
C13_Witness ==
  /\ ResultFinite(result)
  /\ result.pcsPerBag # PiecesPerBag
  /\ result.debug.pcs # PiecesPerBag
  /\ locals.totalBoxKgPacked # BatchKg(result.pcsPerBag, locals.boxAfterPolishG)
  /\ locals.totalBoxKgPacked # BatchKg(result.debug.pcs, locals.boxAfterPolishG)
  /\ Gt(locals.kundaKg, Zero) /\ Gt(locals.pipeKg, Zero)

-----------------------------------------------------------------------------
(* C14 *)

\* C14: rounding happens once, when a value is placed in the result.  Every
\* weight and currency field of the CalcResult is the 2-decimal rounding, and
\* debug.pcs and debug.circleKgInTotal the 3-decimal rounding, of a local of
\* calculate, and the locals are computed from unrounded operands:
\* totalPackedG from the unrounded weights, the debug totals from the
\* unrounded part components, perKgRate from the unrounded finalCost and
\* perPcRate from the unrounded perKgRate and the unrounded totalPackedG.
C14_RoundedOnceAtTheResult ==
  /\ result.perPc.boxG = r2(locals.boxAfterPolishG)
  /\ result.perPc.coverG = r2(locals.coverAfterPolishG)
  /\ result.perPc.kundaG = r2(locals.kundaG)
  /\ result.perPc.polybagG = r2(locals.polybagG)
  /\ result.perPc.pipeG = r2(locals.pipePerPcG)
  /\ result.perPc.totalPackedG = r2(locals.totalPackedG)
  /\ result.pcsPerBag = r2(locals.pcsPerBag)
  /\ result.perKgRate = r2(locals.perKgRate)
  /\ result.perPcRate = r2(locals.perPcRate)
  /\ result.debug.pcs = r3(locals.pcs)
  /\ result.debug.circleKgInTotal
       = r3(Add(locals.boxCostRes.flow.circleKgIn, locals.coverCostRes.flow.circleKgIn))
  /\ result.debug.circleCost = r2(locals.circleCost)
  /\ result.debug.pressCost = r2(locals.pressCost)
  /\ result.debug.inductionCost = r2(locals.inductionCost)
  /\ result.debug.polishCost = r2(locals.polishCost)
  /\ result.debug.packingCost = r2(locals.packingCost)
  /\ result.debug.kundaCost = r2(locals.kundaCost)
  /\ result.debug.plasticCost = r2(locals.plasticCost)
  /\ result.debug.scrapCredit = r2(locals.scrapCredit)
  /\ result.debug.finalCost = r2(locals.finalCost)
  /\ locals.totalPackedG
       = Add(Add(Add(Add(locals.boxAfterPolishG, locals.coverAfterPolishG), locals.kundaG),
                 locals.polybagG), locals.pipePerPcG)
  /\ locals.pressCost
       = Add(locals.boxCostRes.components.pressCharge,
             locals.coverCostRes.components.pressCharge)
  /\ locals.scrapCredit
       = Add(locals.boxCostRes.flow.scrapCredit, locals.coverCostRes.flow.scrapCredit)
  /\ locals.perKgRate = Div(locals.finalCost, locals.bagKg)
  /\ locals.perPcRate = Mul(locals.perKgRate, Div(locals.totalPackedG, N(1000)))

\* a result whose perKgRate and perPcRate are changed by the rounding, and
\* whose rounded perKgRate and totalPackedG fields would give another
\* perPcRate than the unrounded values do
C14_Witness ==
  /\ ResultFinite(result)
  /\ result.perKgRate # locals.perKgRate
  /\ result.perPcRate # locals.perPcRate
  /\ Mul(result.perKgRate, Div(result.perPc.totalPackedG, N(1000))) # locals.perPcRate

-----------------------------------------------------------------------------
(* C15 *)

\* (263/254) x d^2 x (t + 0.003) / 0.263
CircleWeightFormula(d, t) ==
  Div(Mul(Mul(Q(263, 254), Mul(d, d)), Add(t, Q(3, 1000))), Q(263, 1000))

\* the call that was weighed is circleWeightG(7, 0.26)
IsSevenInchCall(w) == w.circleIn = N(7) /\ w.thicknessMm = Q(13, 50)

\* C15 as claimed: circleWeightG(d, t) = (263/254) x d^2 x (t + 0.003) / 0.263
\* for every diameter and every thickness, and circleWeightG(7, 0.26) =
\* (263/254) x 49, which is 50.78 g to two decimals.
C15_CircleWeightIs5078 ==
  \A i \in DOMAIN weighed :
    /\ weighed[i].g = CircleWeightFormula(weighed[i].circleIn, weighed[i].thicknessMm)
    /\ IsSevenInchCall(weighed[i]) =>
         /\ weighed[i].g = Mul(Q(263, 254), N(49))
         /\ r2(weighed[i].g) = Q(5078, 100)

\* C15 as amended: circleWeightG(d, t) = (263/254) x d^2 x (t + 0.003) / 0.263
\* for every diameter and every thickness (the tolerance is added to every
\* thickness), and circleWeightG(7, 0.26) = (263/254) x 49 = 12887/254, which
\* is 50.74 g to two decimals (50.736...), not 50.78 g.
C15_CircleWeightIs5074 ==
  \A i \in DOMAIN weighed :
    /\ weighed[i].g = CircleWeightFormula(weighed[i].circleIn, weighed[i].thicknessMm)
    /\ IsSevenInchCall(weighed[i]) =>
         /\ weighed[i].g = Mul(Q(263, 254), N(49))
         /\ weighed[i].g = Q(12887, 254)
         /\ r2(weighed[i].g) = Q(5074, 100)
         /\ Lt(weighed[i].g, Q(5078, 100))

\* circleWeightG(7, 0.26) has been called and has returned 12887/254
C15_Witness ==
  \E i \in DOMAIN weighed :
    /\ IsSevenInchCall(weighed[i])
    /\ weighed[i].g = Q(12887, 254)

-----------------------------------------------------------------------------
(* C16 *)

-----------------------------------------------------------------------------
(* C17 *)

\* the CalcResult of a call that nothing preceded
StandAlone(it, s) == resultOf(it, calcLocals(it, s))

-----------------------------------------------------------------------------
(* C18 *)

\* the circle weight of a part reduced by its press actual wastage and then
\* by the polish wastage
PieceG(part, polish) ==
  Mul(Mul(CircleWeightFormula(part.circleSizeIn, part.thicknessMm),
          Keep(part.press.actualWastagePct)),
      Keep(polish.wastagePct))

\* C18: per-piece packed mass.  Box and cover grams are each circleWeightG
\* reduced first by that part's press actual-wastage % and then by the shared
\* polish wastage %; the kunda counts with its weight when enabled and with 0
\* when disabled, whatever weight is stored, and kundaCost is then 0;
\* totalPackedG is the sum of box, cover, kunda, the polybag weight and the
\* pipe weight divided by pcsPerPipe.
C18_PerPieceMass ==
  LET bag == item.bagProfile
      kundaG == IF item.kunda.enabled THEN item.kunda.weightG ELSE Zero
      polybagG == Div(Mul(Mul(bag.polybag.sizeIn, bag.polybag.sizeIn), bag.polybag.gauge),
                      N(3300))
      pipeG == Div(Div(Mul(Mul(bag.pipe.widthIn, bag.pipe.lengthIn), bag.pipe.gauge),
                       N(3300)),
                   bag.pipe.pcsPerPipe)
  IN  /\ locals.boxAfterPolishG = PieceG(item.box, item.polish)
      /\ locals.coverAfterPolishG = PieceG(item.cover, item.polish)
      /\ locals.kundaG = kundaG
      /\ locals.polybagG = polybagG
      /\ locals.pipePerPcG = pipeG
      /\ locals.totalPackedG
           = Add(Add(Add(Add(PieceG(item.box, item.polish), PieceG(item.cover, item.polish)),
                         kundaG), polybagG), pipeG)
      /\ ~item.kunda.enabled => (locals.kundaCost = Zero /\ result.debug.kundaCost = Zero)
      /\ item.kunda.enabled => locals.kundaCost = Mul(locals.kundaKg, item.kunda.ratePerKg)

\* a disabled kunda with a weight and a rate stored, in an item whose box
\* loses mass to press actual wastage and to polish wastage and whose polybag
\* and pipe weigh something
C18_Witness ==
  /\ ResultFinite(result)
  /\ ~item.kunda.enabled
  /\ Gt(item.kunda.weightG, Zero) /\ Gt(item.kunda.ratePerKg, Zero)
  /\ result.perPc.kundaG = Zero
  /\ Gt(item.box.press.actualWastagePct, Zero)
  /\ Gt(item.polish.wastagePct, Zero)
  /\ Gt(locals.boxAfterPolishG, Zero)
  /\ Lt(locals.boxAfterPolishG, circleWeightG(item.box.circleSizeIn, item.box.thicknessMm))
  /\ Gt(locals.polybagG, Zero) /\ Gt(locals.pipePerPcG, Zero)

-----------------------------------------------------------------------------
(* C19 *)

\* the part with another press actual-wastage %
WithActualWastage(part, a) == [part EXCEPT !.press.actualWastagePct = a]

\* C19: stage inversion runs from output back to input.  For a part with
\* final batch mass F, packingInput = F / (1 - tutPacking), polishInput =
\* packingInput / ((1 - tutPolish)(1 - wastagePolish)) and pressInput =
\* polishInput / ((1 - tutPress)(1 - jobWastagePress)); the press
\* actual-wastage % is not in the chain: for the same F, every other
\* actual-wastage % gives the same three inputs.
C19_StageInversion ==
  \A w \in Parts :
    LET res == CostResOf(w)
        p == PartOf(item, w)
        packingInput == Div(PackedKgOf(w), Keep(item.packing.tutPct))
        polishInput ==
          Div(packingInput, Mul(Keep(item.polish.tutPct), Keep(item.polish.wastagePct)))
        pressInput == Div(polishInput, Mul(Keep(p.press.tutPct), Keep(p.press.jobWastagePct)))
    IN  /\ res.stages.packingInputKg = packingInput
        /\ res.stages.polishInputKalaKg = polishInput
        /\ res.flow.circleKgIn = pressInput
        /\ \A a \in {N(0), N(50)} :
             LET f == quantityFlow(PackedKgOf(w), WithActualWastage(p, a), item.polish,
                                   item.packing)
             IN  /\ f.pressInputCircleKg = pressInput
                 /\ f.polishInputKalaKg = polishInput
                 /\ f.packingInputKg = packingInput

\* a part with a positive batch mass, a press actual wastage and all five
\* losses of the chain, whose three inputs grow from stage to stage backwards
C19_Witness ==
  \E w \in Parts :
    /\ LossPctsValid(item, w)
    /\ IsFinite(PackedKgOf(w)) /\ Gt(PackedKgOf(w), Zero)
    /\ Gt(PartOf(item, w).press.actualWastagePct, Zero)
    /\ Gt(item.packing.tutPct, Zero)
    /\ Gt(item.polish.tutPct, Zero) /\ Gt(item.polish.wastagePct, Zero)
    /\ Gt(PartOf(item, w).press.tutPct, Zero)
    /\ Gt(PartOf(item, w).press.jobWastagePct, Zero)
    /\ Lt(PackedKgOf(w), CostResOf(w).stages.packingInputKg)
    /\ Lt(CostResOf(w).stages.packingInputKg, CostResOf(w).stages.polishInputKalaKg)
    /\ Lt(CostResOf(w).stages.polishInputKalaKg, CostResOf(w).flow.circleKgIn)

-----------------------------------------------------------------------------
(* C20 *)

\* scrap mass x scrap rate when scrap return is enabled, else 0
CreditFor(scrapReturn, scrapKg) ==
  IF scrapReturn.enabled THEN Mul(scrapKg, scrapReturn.ratePerKg) ELSE Zero

\* the three tut percentages that act on part w are 0
NoTut(it, w) ==
  /\ it.packing.tutPct = Zero
  /\ it.polish.tutPct = Zero
  /\ PartOf(it, w).press.tutPct = Zero

\* C20: only tut losses produce scrap credit.  For each part the scrap mass
\* of press, polish and packing is the stage's input mass x its tut fraction,
\* and the credit is scrap mass x the stage's scrap rate when scrap return is
\* enabled and 0 when it is disabled.  With every tut% equal to 0 (and finite
\* masses) the scrap credit of the part is 0, and with this for both parts the
\* total scrapCredit is 0, whatever the polish wastage and press job-wastage
\* percentages and the scrap-return settings are.
C20_OnlyTutGivesScrapCredit ==
  /\ \A w \in Parts :
       LET res == CostResOf(w)
           p == PartOf(item, w)
           pressScrapKg == Mul(res.flow.circleKgIn, pct(p.press.tutPct))
           polishScrapKg == Mul(res.stages.polishInputKalaKg, pct(item.polish.tutPct))
           packingScrapKg == Mul(res.stages.packingInputKg, pct(item.packing.tutPct))
       IN  /\ res.stages.pressTutKg = pressScrapKg
           /\ res.stages.polishTutKg = polishScrapKg
           /\ res.stages.packingTutKg = packingScrapKg
           /\ res.flow.scrapKg = Add(Add(pressScrapKg, polishScrapKg), packingScrapKg)
           /\ res.components.scrapCreditPress = CreditFor(p.press.scrapReturn, pressScrapKg)
           /\ res.components.scrapCreditPolish = CreditFor(item.polish.scrapReturn, polishScrapKg)
           /\ res.components.scrapCreditPacking
                = CreditFor(item.packing.scrapReturn, packingScrapKg)
           /\ res.flow.scrapCredit
                = Add(Add(CreditFor(p.press.scrapReturn, pressScrapKg),
                          CreditFor(item.polish.scrapReturn, polishScrapKg)),
                      CreditFor(item.packing.scrapReturn, packingScrapKg))
           /\ (NoTut(item, w) /\ IsFinite(res.flow.circleKgIn)) =>
                (res.flow.scrapCredit = Zero /\ res.flow.scrapKg = Zero)
  /\ ( /\ \A w \in Parts : NoTut(item, w) /\ IsFinite(CostResOf(w).flow.circleKgIn) ) =>
       (locals.scrapCredit = Zero /\ result.debug.scrapCredit = Zero)

\* no tut at any stage, a polish wastage or a press job wastage, every scrap
\* return enabled at a positive rate, a positive batch mass
C20_Witness ==
  /\ ResultFinite(result)
  /\ \A w \in Parts : NoTut(item, w)
  /\ \E w \in Parts :
       /\ Gt(PackedKgOf(w), Zero)
       /\ Gt(item.polish.wastagePct, Zero) \/ Gt(PartOf(item, w).press.jobWastagePct, Zero)
       /\ Lt(PackedKgOf(w), CostResOf(w).flow.circleKgIn)
       /\ PartOf(item, w).press.scrapReturn.enabled
       /\ Gt(PartOf(item, w).press.scrapReturn.ratePerKg, Zero)
  /\ item.polish.scrapReturn.enabled /\ Gt(item.polish.scrapReturn.ratePerKg, Zero)
  /\ item.packing.scrapReturn.enabled /\ Gt(item.packing.scrapReturn.ratePerKg, Zero)
  /\ result.debug.scrapCredit = Zero

-----------------------------------------------------------------------------
(* C21 *)

NoScrapReturn == [enabled |-> FALSE, ratePerKg |-> Zero]

\* the part with its cost-only parameters blanked: press job-wastage % and
\* tut %, the rates and the scrap-return setting
PartWithoutCostOnly(p) ==
  [ p EXCEPT !.circleRatePerKg = [t |-> "undefined", v |-> Zero],
             !.press.ratePerKg = Zero,
             !.press.jobWastagePct = Zero,
             !.press.tutPct = Zero,
             !.press.scrapReturn = NoScrapReturn,
             !.induction = NoInduction ]

\* the item with every cost-only parameter blanked
ItemWithoutCostOnly(it) ==
  [ it EXCEPT !.box = PartWithoutCostOnly(it.box),
              !.cover = PartWithoutCostOnly(it.cover),
              !.polish.ratePerKg = Zero,
              !.polish.tutPct = Zero,
              !.polish.scrapReturn = NoScrapReturn,
              !.packing.packingRatePerKg = Zero,
              !.packing.tutPct = Zero,
              !.packing.scrapReturn = NoScrapReturn,
              !.kunda.ratePerKg = Zero,
              !.bagProfile.polybag.ratePerKg = Zero,
              !.bagProfile.pipe.ratePerKg = Zero ]

\* the settings with the circle rates blanked
SettingsWithoutCostOnly(s) ==
  [ s EXCEPT !.circleBaseRate = Zero, !.circleAddPerKg = Zero, !.circleExtraAddPerKg = Zero ]

\* a step that changes cost-only parameters and nothing else of the input
CostOnlyEdit ==
  /\ <<item', settings'>> # <<item, settings>>
  /\ ItemWithoutCostOnly(item') = ItemWithoutCostOnly(item)
  /\ SettingsWithoutCostOnly(settings') = SettingsWithoutCostOnly(settings)

\* C21: cost-only parameters leave all weights unchanged.  A recalculation
\* after a change of a part's press job-wastage % or press tut %, of the
\* polish tut %, of the packing tut %, of any rate or of any scrap-return
\* setting gives the same perPc weights, totalPackedG and pcsPerBag, rounded
\* and unrounded, as before the change.
C21_CostOnlyEditsKeepWeights ==
  [][ CostOnlyEdit =>
        /\ result'.perPc = result.perPc
        /\ result'.pcsPerBag = result.pcsPerBag
        /\ result'.debug.pcs = result.debug.pcs
        /\ locals'.boxAfterPolishG = locals.boxAfterPolishG
        /\ locals'.coverAfterPolishG = locals.coverAfterPolishG
        /\ locals'.totalPackedG = locals.totalPackedG
        /\ locals'.pcsPerBag = locals.pcsPerBag ]_vars

\* the result after one edit of a cost-only parameter of a base item: the
\* weights are those of the base item, the rate per kg is another
C21_Witness ==
  /\ edits = 1
  /\ ResultFinite(result)
  /\ \E b \in BaseItems :
       /\ item # b
       /\ settings = BaseSettings
       /\ ItemWithoutCostOnly(item) = ItemWithoutCostOnly(b)
       /\ item.box.press.jobWastagePct # b.box.press.jobWastagePct
       /\ result.perPc = calculate(b, BaseSettings).perPc
       /\ result.pcsPerBag = calculate(b, BaseSettings).pcsPerBag
       /\ result.perKgRate # calculate(b, BaseSettings).perKgRate

-----------------------------------------------------------------------------
(* C26 *)

\* the unrounded batch masses of box, cover, kunda, polybag and pipe, summed
BatchMassSum ==
  Add(Add(Add(Add(locals.totalBoxKgPacked, locals.totalCoverKgPacked), locals.kundaKg),
          locals.polybagKg), locals.pipeKg)

\* C26: batch mass identity.  For every valid input with totalPackedG > 0 the
\* unrounded batch masses of box, cover, kunda, polybag and pipe sum exactly
\* to bagStandardKg, and perPcRate x piecesPerBag = finalCost.
C26_BatchMassesSumToBag ==
  (ValidInput(item, settings) /\ Gt(locals.totalPackedG, Zero)) =>
    /\ Eq(BatchMassSum, settings.bagStandardKg)
    /\ Eq(Mul(locals.perPcRate, locals.pcsPerBag), locals.finalCost)

-----------------------------------------------------------------------------
(* C27 *)

\* C27: mass conservation per part.  For loss fractions in [0,1) and a final
\* mass F >= 0: press input >= press output = polish input >= polish output =
\* packing input >= F, and the total scrap mass (press + polish + packing tut
\* mass) is at most press input - F.
C27_MassConservation ==
  \A w \in Parts :
    (LossPctsValid(item, w) /\ Le(Zero, PackedKgOf(w))) =>
      LET res == CostResOf(w)
      IN  /\ Le(res.flow.kalaKgOut, res.flow.circleKgIn)
          /\ Eq(res.flow.kalaKgOut, res.stages.polishInputKalaKg)
          /\ Le(res.flow.polishKgOut, res.flow.kalaKgOut)
          /\ Eq(res.flow.polishKgOut, res.stages.packingInputKg)
          /\ Le(PackedKgOf(w), res.flow.polishKgOut)
          /\ Eq(res.flow.packedKgOut, PackedKgOf(w))
          /\ Le(res.flow.scrapKg, Sub(res.flow.circleKgIn, PackedKgOf(w)))
          /\ Le(Zero, res.flow.scrapKg)

\* a part with a positive final mass that loses mass at every stage, to tut
\* and to wastage, so that the scrap mass is less than the mass lost
C27_Witness ==
  \E w \in Parts :
    /\ LossPctsValid(item, w)
    /\ Gt(PackedKgOf(w), Zero)
    /\ Lt(CostResOf(w).flow.kalaKgOut, CostResOf(w).flow.circleKgIn)
    /\ Lt(CostResOf(w).flow.polishKgOut, CostResOf(w).flow.kalaKgOut)
    /\ Lt(PackedKgOf(w), CostResOf(w).flow.polishKgOut)
    /\ Gt(CostResOf(w).flow.scrapKg, Zero)
    /\ Lt(CostResOf(w).flow.scrapKg, Sub(CostResOf(w).flow.circleKgIn, PackedKgOf(w)))

-----------------------------------------------------------------------------
(* C28 *)

\* every enabled scrap-return rate that acts on part w is at most the circle
\* rate resolved for the part
ScrapWorthAtMostCircle(it, w) ==
  /\ PartOf(it, w).press.scrapReturn.enabled =>
       Le(PartOf(it, w).press.scrapReturn.ratePerKg, CircleRateOf(w))
  /\ it.polish.scrapReturn.enabled => Le(it.polish.scrapReturn.ratePerKg, CircleRateOf(w))
  /\ it.packing.scrapReturn.enabled => Le(it.packing.scrapReturn.ratePerKg, CircleRateOf(w))

\* C28: scrap credit cannot make a cost negative when scrap is worth no more
\* than the raw material.  For every valid input in which each enabled
\* scrap-return rate is <= the part's resolved circle rate, each part's cost
\* is >= 0 and finalCost, perKgRate and perPcRate are >= 0.
C28_CostsNotNegative ==
  (ValidInput(item, settings) /\ \A w \in Parts : ScrapWorthAtMostCircle(item, w)) =>
    /\ \A w \in Parts : Le(Zero, CostResOf(w).partCostExcludingFinalPackingCharge)
    /\ Le(Zero, locals.finalCost)
    /\ Le(Zero, locals.perKgRate)
    /\ Le(Zero, locals.perPcRate)

-----------------------------------------------------------------------------
(* The App revision with debounced saves and a remote store:               *)
(* src/unnamed/part_000, lines 592-1627.  Every handler runs to its end    *)
(* in one step and every request to the remote store succeeds; the         *)
(* debounce timer is a step of its own.  One user signs in and out.        *)

\* how many circle-rate edits, clones, editor saves and imports are followed
\* in all, and up to how many runs of the seeding loop
MaxOps == 2
MaxSeedRuns == 2

CIRCLE_RATE_AUTO_ADD == N(3)

\* seed.ts: seedSettings = defaultSettings()
seedSettings ==
  [ circleBaseRate |-> N(170),
    circleAddPerKg |-> N(5),
    circleExtraAddPerKg |-> N(0),
    bagStandardKg |-> N(80) ]

\* seed.ts: seedItems, cut to two items; the ids are made once per page load
seedItems == << [PlainItem EXCEPT !.id = "s1"], [PlainItem EXCEPT !.id = "s2"] >>

\* the user that signs in
UserId == "u1"

\* makeId() for the k-th clone: an id no other item has
makeId(k) == << "c1", "c2", "c3", "c4" >>[k]

\* Number(e.target.value) of the two circle-rate inputs
RateInputs == {N(0), N(50)}

\* the backup files imported: settings with a zero circle rate and no items,
\* and one item of its own rate without settings
ImportBlobs ==
  { [ settings |-> << [seedSettings EXCEPT !.circleBaseRate = N(0),
                                            !.circleAddPerKg = N(0)] >>,
      items |-> << >> ],
    [ settings |-> << >>,
      items |-> << [PlainItem EXCEPT !.id = "b1",
                                     !.box.circleRatePerKg = [t |-> "number", v |-> N(2)]] >> ] }

\* the ids of a list of items or rows
Ids(rows) == {rows[k].id : k \in 1..Len(rows)}

\* rows.find(i => i.id === id): << >> when there is none
find(rows, id) == SelectSeq(rows, LAMBDA x : x.id = id)

\* from('items').upsert(row): a new row is the user's newest row, a row
\* that exists is replaced where it is
upsertRow(rows, it) ==
  IF \E k \in 1..Len(rows) : rows[k].id = it.id
  THEN [k \in 1..Len(rows) |-> IF rows[k].id = it.id THEN it ELSE rows[k]]
  ELSE <<it>> \o rows

\* from('items').delete().eq('id', id), and prev.filter(x => x.id !== id)
deleteRow(rows, id) == SelectSeq(rows, LAMBDA x : x.id # id)

\* for (const it of its) await upsert(it)
RECURSIVE upsertAll(_, _)
upsertAll(rows, its) ==
  IF its = << >> THEN rows ELSE upsertAll(upsertRow(rows, Head(its)), Tail(its))

\* prev.map(x => (x.id === next.id ? next : x))
replaceItem(rows, it) ==
  [k \in 1..Len(rows) |-> IF rows[k].id = it.id THEN it ELSE rows[k]]

\* selected = items.find(i => i.id === selectedId) || null
selected == find(items, selectedId)

\* circleFallback = fallbackCircleRate(settings)
circleFallback == fallbackCircleRate(settings)

\* boxBase / coverBase (and boxRateInput / coverRateInput): the stored rate
\* when it is a finite number > 0, else circleFallback
rateInput(part, fallback) ==
  IF /\ part.circleRatePerKg.t = "number"
     /\ IsFinite(part.circleRatePerKg.v)
     /\ Gt(part.circleRatePerKg.v, Zero)
  THEN part.circleRatePerKg.v
  ELSE fallback

\* selectedForCalc with the offset left off a part that has no rate of its own
selectedForCalc_FallbackBare(sel, fallback) ==
  [ sel EXCEPT
      !.box.circleRatePerKg =
        [ t |-> "number",
          v |-> IF rateInput(sel.box, fallback) = fallback
                THEN fallback
                ELSE Add(rateInput(sel.box, fallback), CIRCLE_RATE_AUTO_ADD) ],
      !.cover.circleRatePerKg =
        [ t |-> "number",
          v |-> IF rateInput(sel.cover, fallback) = fallback
                THEN fallback
                ELSE Add(rateInput(sel.cover, fallback), CIRCLE_RATE_AUTO_ADD) ] ]

\* selectedForCalc: the copy of the selected item that calculate receives
selectedForCalc(sel, fallback) ==
  [ sel EXCEPT
      !.box.circleRatePerKg =
        [t |-> "number", v |-> Add(rateInput(sel.box, fallback), CIRCLE_RATE_AUTO_ADD)],
      !.cover.circleRatePerKg =
        [t |-> "number", v |-> Add(rateInput(sel.cover, fallback), CIRCLE_RATE_AUTO_ADD)] ]

\* the variables no handler of the App touches
restVars == <<item, result, locals, edits, callVars, localVars>>

InitDebounced ==
  /\ item = PlainItem
  /\ settings = seedSettings
  /\ result = << >>
  /\ locals = << >>
  /\ edits = 0
  /\ calls = << >>
  /\ weighed = << >>
  /\ AppIdle
  /\ LocalIdle

\* the end of refresh(): the loaded settings and items go into the state and
\* the selection is kept when it is among the loaded items
Loaded(rows, srow) ==
  /\ settings' = IF srow = << >> THEN seedSettings ELSE srow[1]
  /\ items' = rows
  /\ selectedId' =
       IF selectedId = "" \/ selectedId \notin Ids(rows) THEN rows[1].id ELSE selectedId

\* refresh() of a signed-in user whose store holds rows and srow: an empty
\* item table is seeded and loaded again
Refreshed(rows, srow) ==
  IF rows = << >>
  THEN /\ seedRuns < MaxSeedRuns
       /\ seedRuns' = seedRuns + 1
       /\ remoteItems' = upsertAll(rows, seedItems)
       /\ remoteSettings' = IF srow = << >> THEN <<seedSettings>> ELSE srow
       /\ Loaded(remoteItems', remoteSettings')
  ELSE /\ remoteItems' = rows
       /\ remoteSettings' = srow
       /\ UNCHANGED seedRuns
       /\ Loaded(rows, srow)

\* signing in: setSession, then the effect on session.user.id runs refresh()
Login ==
  /\ session = ""
  /\ session' = UserId
  /\ Refreshed(remoteItems, remoteSettings)
  /\ UNCHANGED <<itemSaveTimer, lastItemToSave, unsaved, ops>>
  /\ UNCHANGED restVars

\* the Refresh button
Refresh ==
  /\ session # ""
  /\ Refreshed(remoteItems, remoteSettings)
  /\ UNCHANGED <<session, itemSaveTimer, lastItemToSave, unsaved, ops>>
  /\ UNCHANGED restVars

\* doLogout()
DoLogout ==
  /\ session # ""
  /\ session' = ""
  /\ items' = << >>
  /\ selectedId' = ""
  /\ unsaved' = {}
  /\ UNCHANGED <<settings, remoteItems, remoteSettings, itemSaveTimer, lastItemToSave,
                 seedRuns, ops>>
  /\ UNCHANGED restVars

\* the item select and the item buttons: setSelectedId(it.id)
SelectItem ==
  /\ session # ""
  /\ \E id \in Ids(items) : selectedId' = id
  /\ UNCHANGED <<items, session, settings, remoteItems, remoteSettings, itemSaveTimer,
                 lastItemToSave, seedRuns, unsaved, ops>>
  /\ UNCHANGED restVars

\* quickSaveItem(next): the list is updated at once and one timer, shared by
\* all items, is restarted to upsert the last item passed
quickSaveItem(next) ==
  /\ items' = replaceItem(items, next)
  /\ lastItemToSave' = <<next>>
  /\ itemSaveTimer' = TRUE
  /\ unsaved' = unsaved \cup {next.id}

\* onChange of the box circle-rate input
EditBoxRate ==
  /\ session # ""
  /\ selected # << >>
  /\ ops < MaxOps
  /\ \E n \in RateInputs :
       quickSaveItem([selected[1] EXCEPT !.box.circleRatePerKg = [t |-> "number", v |-> n]])
  /\ ops' = ops + 1
  /\ UNCHANGED <<selectedId, session, settings, remoteItems, remoteSettings, seedRuns>>
  /\ UNCHANGED restVars

\* onChange of the cover circle-rate input
EditCoverRate ==
  /\ session # ""
  /\ selected # << >>
  /\ ops < MaxOps
  /\ \E n \in RateInputs :
       quickSaveItem([selected[1] EXCEPT !.cover.circleRatePerKg = [t |-> "number", v |-> n]])
  /\ ops' = ops + 1
  /\ UNCHANGED <<selectedId, session, settings, remoteItems, remoteSettings, seedRuns>>
  /\ UNCHANGED restVars

\* the callback of itemSaveTimer, 400 ms after the last quickSaveItem:
\* upsertItemRemote(lastItemToSave.current), which sends nothing when no
\* user is signed in
ItemSaveTimerFires ==
  /\ itemSaveTimer
  /\ itemSaveTimer' = FALSE
  /\ IF lastItemToSave # << >> /\ session # ""
     THEN /\ remoteItems' = upsertRow(remoteItems, lastItemToSave[1])
          /\ unsaved' = unsaved \ {lastItemToSave[1].id}
     ELSE UNCHANGED <<remoteItems, unsaved>>
  /\ UNCHANGED <<items, selectedId, session, settings, remoteSettings, lastItemToSave,
                 seedRuns, ops>>
  /\ UNCHANGED restVars

\* onDelete(id), confirmed: the row is deleted, then the item leaves the list
\* and a selection of it moves to the first item left
OnDelete ==
  /\ session # ""
  /\ \E id \in Ids(items) :
       /\ remoteItems' = deleteRow(remoteItems, id)
       /\ items' = deleteRow(items, id)
       /\ selectedId' =
            IF selectedId = id
            THEN IF deleteRow(items, id) = << >> THEN "" ELSE deleteRow(items, id)[1].id
            ELSE selectedId
       /\ unsaved' = unsaved \ {id}
  /\ UNCHANGED <<session, settings, remoteSettings, itemSaveTimer, lastItemToSave,
                 seedRuns, ops>>
  /\ UNCHANGED restVars

\* onClone()
OnClone ==
  /\ session # ""
  /\ selected # << >>
  /\ ops < MaxOps
  /\ remoteItems' = upsertRow(remoteItems, [selected[1] EXCEPT !.id = makeId(ops + 1)])
  /\ items' = <<[selected[1] EXCEPT !.id = makeId(ops + 1)]>> \o items
  /\ selectedId' = makeId(ops + 1)
  /\ ops' = ops + 1
  /\ UNCHANGED <<session, settings, remoteSettings, itemSaveTimer, lastItemToSave,
                 seedRuns, unsaved>>
  /\ UNCHANGED restVars

\* onSaveItem(it), from the item editor: here the editor switches the kunda on
OnSaveItem ==
  /\ session # ""
  /\ selected # << >>
  /\ ops < MaxOps
  /\ remoteItems' = upsertRow(remoteItems, [selected[1] EXCEPT !.kunda.enabled = TRUE])
  /\ items' = replaceItem(items, [selected[1] EXCEPT !.kunda.enabled = TRUE])
  /\ ops' = ops + 1
  /\ UNCHANGED <<selectedId, session, remoteSettings, settings, itemSaveTimer,
                 lastItemToSave, seedRuns, unsaved>>
  /\ UNCHANGED restVars

\* doImport(file): the settings and the items of the file are written to the
\* store, then refresh()
DoImport ==
  /\ session # ""
  /\ ops < MaxOps
  /\ \E blob \in ImportBlobs :
       Refreshed(upsertAll(remoteItems, blob.items),
                 IF blob.settings # << >> THEN blob.settings ELSE remoteSettings)
  /\ ops' = ops + 1
  /\ UNCHANGED <<session, itemSaveTimer, lastItemToSave, unsaved>>
  /\ UNCHANGED restVars

NextDebounced ==
  \/ Login
  \/ Refresh
  \/ DoLogout
  \/ SelectItem
  \/ EditBoxRate
  \/ EditCoverRate
  \/ ItemSaveTimerFires
  \/ OnDelete
  \/ OnClone
  \/ OnSaveItem
  \/ DoImport

SpecDebounced == InitDebounced /\ [][NextDebounced]_vars

\* the timer callback runs once its 400 ms have passed
SpecDebouncedLive == SpecDebounced /\ WF_vars(ItemSaveTimerFires)

-----------------------------------------------------------------------------
(* C22 *)

\* the circle rate calculate resolves for part w of the copy it receives
UsedRate(w) ==
  resolvePartCircleRatePerKg(PartOf(selectedForCalc(selected[1], circleFallback), w), settings)

\* the values a stored circleRatePerKg can have: none, or a number entered
EnteredRates ==
  {[t |-> "undefined", v |-> Zero]} \cup
  {[t |-> "number", v |-> n] : n \in RateInputs \cup {N(2)}}

\* every item of the list rows holds rates as they were entered
HoldsEnteredRates(rows) ==
  \A k \in 1..Len(rows), w \in Parts : PartOf(rows[k], w).circleRatePerKg \in EnteredRates

\* C22: in the revision with CIRCLE_RATE_AUTO_ADD = 3, after any sequence of
\* circle-rate edits, saves and recalculations, the circle rate calculate uses
\* for box and for cover is exactly (the stored rate if it is a finite number
\* > 0, else the settings fallback) + 3; the offset is never written into an
\* item held in state, waiting to be saved or held by the remote store.
C22_OffsetAppliedOnce ==
  /\ selected # << >> =>
       \A w \in Parts :
         UsedRate(w) =
           Add(IF HasOwnRate(PartOf(selected[1], w))
               THEN PartOf(selected[1], w).circleRatePerKg.v
               ELSE SettingsRate(settings),
               N(3))
  /\ HoldsEnteredRates(items)
  /\ HoldsEnteredRates(remoteItems)
  /\ HoldsEnteredRates(lastItemToSave)

\* two rate edits were made and saved; the selected item's box has its own
\* rate 50, used as 53, and its cover falls back to the settings, used as 178
C22_Witness ==
  /\ ops = MaxOps
  /\ ~itemSaveTimer
  /\ selected # << >>
  /\ selected[1].box.circleRatePerKg = [t |-> "number", v |-> N(50)]
  /\ selected[1].cover.circleRatePerKg = [t |-> "number", v |-> N(0)]
  /\ find(remoteItems, selectedId) = selected
  /\ UsedRate("box") = N(53)
  /\ UsedRate("cover") = N(178)

-----------------------------------------------------------------------------
(* C23 *)

\* C23: debounced item save.  Once edits stop, every item changed through
\* quickSaveItem is eventually upserted to the remote store with its latest
\* locally applied value, for every item edited and however the edits are
\* spaced in time (the session persists and remote writes succeed): from some
\* point on no item edited through quickSaveItem is left without its upsert.
C23_EditsEventuallySaved == <>[](unsaved = {})

-----------------------------------------------------------------------------
(* C25 *)

\* C25: seeding is one-time.  Over any sequence of refreshes, saves, deletes
\* and re-logins of a user, the seed items are written to the store at most
\* once.
C25_SeededAtMostOnce == seedRuns <= 1

-----------------------------------------------------------------------------
(* C29 *)

\* C29: a deleted item stays deleted.  Rows leave the remote table only
\* through onDelete, and quickSaveItem is only ever passed an item of the
\* loaded list, so a debounced write that creates a row re-creates a deleted
\* item: no step of the timer callback adds an id to the remote table.
C29_DeletedStaysDeleted ==
  [][ItemSaveTimerFires => Ids(remoteItems') \subseteq Ids(remoteItems)]_vars

-----------------------------------------------------------------------------
(* The App revision that reloads after every write:                        *)
(* src/unnamed/part_000, lines 1-591.  Every handler runs to its end in    *)
(* one step; writes to the remote store succeed, and each of the two reads *)
(* of refresh() either succeeds or returns an error (63-67, 79-83).        *)

\* the outcomes of the reads of one refresh(): both succeed, the settings read
\* fails, the items read fails
ReadOutcomes == {"ok", "settings error", "items error"}

\* the variables only the revision with debounced saves has
timerVars == <<itemSaveTimer, lastItemToSave, unsaved>>

InitSync ==
  /\ item = PlainItem
  /\ settings = seedSettings
  /\ result = << >>
  /\ locals = << >>
  /\ edits = 0
  /\ calls = << >>
  /\ weighed = << >>
  /\ AppIdle
  /\ LocalIdle

\* lines 127-133: the loaded items go into the state; selectedId, as the
\* handler saw it, is kept when it is among them
SyncLoaded(rows) ==
  /\ items' = rows
  /\ selectedId' =
       IF selectedId = "" \/ selectedId \notin Ids(rows) THEN rows[1].id ELSE selectedId

\* refresh() of a signed-in user whose store holds rows and srow, with the
\* reads ending as read
SyncRefreshed(rows, srow, read) ==
  CASE read = "settings error" ->
         /\ remoteItems' = rows
         /\ remoteSettings' = srow
         /\ UNCHANGED <<settings, items, selectedId, seedRuns>>
    [] read = "items error" ->
         /\ remoteItems' = rows
         /\ remoteSettings' = srow
         /\ settings' = IF srow = << >> THEN seedSettings ELSE srow[1]
         /\ UNCHANGED <<items, selectedId, seedRuns>>
    [] OTHER ->
         IF rows = << >>
         THEN /\ seedRuns < MaxSeedRuns
              /\ seedRuns' = seedRuns + 1
              /\ remoteItems' = upsertAll(rows, seedItems)
              /\ remoteSettings' = IF srow = << >> THEN <<seedSettings>> ELSE srow
              /\ settings' = remoteSettings'[1]
              /\ SyncLoaded(remoteItems')
         ELSE /\ remoteItems' = rows
              /\ remoteSettings' = srow
              /\ settings' = IF srow = << >> THEN seedSettings ELSE srow[1]
              /\ UNCHANGED seedRuns
              /\ SyncLoaded(rows)

\* signing in: setSession, then the effect on session.user.id runs refresh()
SyncLogin ==
  /\ session = ""
  /\ session' = UserId
  /\ \E read \in ReadOutcomes : SyncRefreshed(remoteItems, remoteSettings, read)
  /\ UNCHANGED <<ops, timerVars>>
  /\ UNCHANGED restVars

\* doLogout()
SyncLogout ==
  /\ session # ""
  /\ session' = ""
  /\ items' = << >>
  /\ selectedId' = ""
  /\ UNCHANGED <<settings, remoteItems, remoteSettings, seedRuns, ops, timerVars>>
  /\ UNCHANGED restVars

\* the item select and the item buttons: setSelectedId(it.id)
SyncSelect ==
  /\ session # ""
  /\ \E id \in Ids(items) : selectedId' = id
  /\ UNCHANGED <<items, session, settings, remoteItems, remoteSettings, seedRuns, ops,
                 timerVars>>
  /\ UNCHANGED restVars

\* onDelete(id): deleteItem(id), then refresh()
SyncDelete ==
  /\ session # ""
  /\ \E id \in Ids(items), read \in ReadOutcomes :
       SyncRefreshed(deleteRow(remoteItems, id), remoteSettings, read)
  /\ UNCHANGED <<session, ops, timerVars>>
  /\ UNCHANGED restVars

\* onClone(): upsertItem(copy), refresh(), then setSelectedId(copy.id); an
\* error of a read makes refresh() return, not throw
SyncClone ==
  /\ session # ""
  /\ selected # << >>
  /\ ops < MaxOps
  /\ \E read \in ReadOutcomes :
       /\ remoteSettings' = remoteSettings
       /\ remoteItems' = upsertRow(remoteItems, [selected[1] EXCEPT !.id = makeId(ops + 1)])
       /\ settings' =
            IF read = "settings error" THEN settings
            ELSE IF remoteSettings = << >> THEN seedSettings ELSE remoteSettings[1]
       /\ items' = IF read = "ok" THEN remoteItems' ELSE items
  /\ selectedId' = makeId(ops + 1)
  /\ ops' = ops + 1
  /\ UNCHANGED <<session, seedRuns, timerVars>>
  /\ UNCHANGED restVars

\* onSaveItem(it), from the item editor: upsertItem(it), then refresh(); here
\* the editor switches the kunda on
SyncSaveItem ==
  /\ session # ""
  /\ selected # << >>
  /\ ops < MaxOps
  /\ \E read \in ReadOutcomes :
       SyncRefreshed(upsertRow(remoteItems, [selected[1] EXCEPT !.kunda.enabled = TRUE]),
                     remoteSettings, read)
  /\ ops' = ops + 1
  /\ UNCHANGED <<session, timerVars>>
  /\ UNCHANGED restVars

\* doImport(file): the settings and the items of the file are written to the
\* store, then refresh()
SyncImport ==
  /\ session # ""
  /\ ops < MaxOps
  /\ \E blob \in ImportBlobs, read \in ReadOutcomes :
       SyncRefreshed(upsertAll(remoteItems, blob.items),
                     IF blob.settings # << >> THEN blob.settings ELSE remoteSettings,
                     read)
  /\ ops' = ops + 1
  /\ UNCHANGED <<session, timerVars>>
  /\ UNCHANGED restVars

NextSync ==
  \/ SyncLogin
  \/ SyncLogout
  \/ SyncSelect
  \/ SyncDelete
  \/ SyncClone
  \/ SyncSaveItem
  \/ SyncImport

SpecSync == InitSync /\ [][NextSync]_vars

-----------------------------------------------------------------------------
(* C24 *)

\* C24: selection safety.  Whenever no action is in flight and the item list
\* is not empty, selectedId is the id of an item in the list, after any
\* sequence of refresh, delete, clone, save, import, login and logout.
C24_SelectionInList == items # << >> => selectedId \in Ids(items)

-----------------------------------------------------------------------------
(* The local store (src/unnamed/part_000, lines 1757-1827) under the        *)
(* handlers of the first App revision (src/src/ui/App.tsx).  Only the two  *)
(* object stores are followed: the App state of that revision is a copy    *)
(* that refresh() reads from them.                                         *)

\* JavaScript values of the fields of a parsed backup file
JsUndefined == [t |-> "undefined", v |-> << >>]
JsNull == [t |-> "null", v |-> << >>]
JsNumber(n) == [t |-> "number", v |-> <<n>>]
JsArray(a) == [t |-> "array", v |-> a]
JsObject(o) == [t |-> "object", v |-> <<o>>]

\* an item and settings found in backup files
BackupItem == [PlainItem EXCEPT !.id = "b1"]
BackupSettings == [seedSettings EXCEPT !.bagStandardKg = N(40)]

\* the parsed backup files passed to importAll: null, and objects whose
\* version, items and settings are well-formed or not
LocalBlobs ==
  { [isNull |-> TRUE, version |-> JsUndefined, items |-> JsUndefined, settings |-> JsUndefined],
    [isNull |-> FALSE, version |-> JsNumber(2), items |-> JsArray(<<BackupItem>>),
     settings |-> JsObject(BackupSettings)],
    [isNull |-> FALSE, version |-> JsUndefined, items |-> JsArray(<<BackupItem>>),
     settings |-> JsObject(BackupSettings)],
    [isNull |-> FALSE, version |-> JsNumber(1), items |-> JsUndefined,
     settings |-> JsObject(BackupSettings)],
    [isNull |-> FALSE, version |-> JsNumber(1), items |-> JsObject(BackupItem),
     settings |-> JsObject(BackupSettings)],
    [isNull |-> FALSE, version |-> JsNumber(1), items |-> JsArray(<<BackupItem>>),
     settings |-> JsUndefined],
    [isNull |-> FALSE, version |-> JsNumber(1), items |-> JsArray(<<BackupItem>>),
     settings |-> JsNull],
    [isNull |-> FALSE, version |-> JsNumber(1), items |-> JsArray(<<BackupItem>>),
     settings |-> JsObject(BackupSettings)],
    [isNull |-> FALSE, version |-> JsNumber(1), items |-> JsArray(<< >>),
     settings |-> JsObject(seedSettings)] }

\* d.put(STORE_ITEMS, item): the store is keyed by id
upsertItem(store, it) == {x \in store : x.id # it.id} \cup {it}

\* d.delete(STORE_ITEMS, id)
deleteItem(store, id) == {x \in store : x.id # id}

\* for (const it of its) await tx1.store.put(it)
RECURSIVE putAll(_, _)
putAll(store, its) ==
  IF its = << >> THEN store ELSE putAll(upsertItem(store, Head(its)), Tail(its))

\* the test of importAll with !blob.settings left out
invalidBackup_SettingsOptional(blob) ==
  \/ blob.isNull
  \/ blob.version # JsNumber(1)
  \/ blob.items.t # "array"

\* the test of importAll, line 1808:
\* !blob || blob.version !== 1 || !Array.isArray(blob.items) || !blob.settings
invalidBackup(blob) ==
  \/ blob.isNull
  \/ blob.version # JsNumber(1)
  \/ blob.items.t # "array"
  \/ blob.settings.t \in {"undefined", "null"}

\* importAll(blob) on the stores its and s: what it throws ("" for a normal
\* return) and the stores it leaves
importAll(blob, its, s) ==
  IF invalidBackup(blob)
  THEN [thrown |-> "Invalid backup file", items |-> its, settings |-> s]
  ELSE [thrown |-> "", items |-> putAll({}, blob.items.v), settings |-> blob.settings.v]

\* the variables of the revisions with a remote store
uiVars ==
  <<items, selectedId, session, remoteItems, remoteSettings, itemSaveTimer,
    lastItemToSave, unsaved, ops>>

InitLocal ==
  /\ item = PlainItem
  /\ settings = seedSettings
  /\ result = << >>
  /\ locals = << >>
  /\ edits = 0
  /\ calls = << >>
  /\ weighed = << >>
  /\ AppIdle
  /\ LocalIdle

\* the page is loaded: the effect "Seed DB on first run" (App.tsx 38-52)
LocalMount ==
  /\ IF idbItems = {}
     THEN /\ seedRuns < MaxSeedRuns
          /\ seedRuns' = seedRuns + 1
          /\ idbItems' = putAll(idbItems, seedItems)
     ELSE UNCHANGED <<seedRuns, idbItems>>
  /\ idbSettings' = IF idbSettings = << >> THEN <<seedSettings>> ELSE idbSettings
  /\ UNCHANGED imports
  /\ UNCHANGED <<calcVars, callVars, uiVars>>

\* onSaveItem(it): here the editor switches the kunda of a stored item on
LocalSaveItem ==
  /\ \E it \in idbItems : idbItems' = upsertItem(idbItems, [it EXCEPT !.kunda.enabled = TRUE])
  /\ UNCHANGED <<idbSettings, imports, seedRuns>>
  /\ UNCHANGED <<calcVars, callVars, uiVars>>

\* onDelete(id)
LocalDelete ==
  /\ \E it \in idbItems : idbItems' = deleteItem(idbItems, it.id)
  /\ UNCHANGED <<idbSettings, imports, seedRuns>>
  /\ UNCHANGED <<calcVars, callVars, uiVars>>

\* onSaveSettings(s)
LocalSaveSettings ==
  /\ idbSettings' = <<[seedSettings EXCEPT !.bagStandardKg = N(60)]>>
  /\ UNCHANGED <<idbItems, imports, seedRuns>>
  /\ UNCHANGED <<calcVars, callVars, uiVars>>

\* doImport(file): importAll(JSON.parse(text)); the record keeps the file,
\* the stores before and after the call and what the call threw
LocalImport ==
  /\ \E blob \in LocalBlobs :
       /\ idbItems' = importAll(blob, idbItems, idbSettings).items
       /\ idbSettings' = importAll(blob, idbItems, idbSettings).settings
       /\ imports' = << [ blob |-> blob,
                          thrown |-> importAll(blob, idbItems, idbSettings).thrown,
                          before |-> [items |-> idbItems, settings |-> idbSettings],
                          after |-> [items |-> idbItems', settings |-> idbSettings'] ] >>
  /\ UNCHANGED seedRuns
  /\ UNCHANGED <<calcVars, callVars, uiVars>>

NextLocal ==
  \/ LocalMount
  \/ LocalSaveItem
  \/ LocalDelete
  \/ LocalSaveSettings
  \/ LocalImport

SpecLocal == InitLocal /\ [][NextLocal]_vars

-----------------------------------------------------------------------------
(* C30 *)

\* the backup is malformed: it is null, its version is not 1, its items is
\* not an array or its settings is missing
Malformed(blob) ==
  \/ blob.isNull
  \/ blob.version # JsNumber(1)
  \/ blob.items.t # "array"
  \/ blob.settings.t = "undefined"

\* C30: importAll rejects a malformed backup without touching stored data.
\* If the blob is null, its version is not 1, its items is not an array or
\* its settings is missing, importAll throws 'Invalid backup file' and the
\* items store and the settings store are exactly as before; only a blob that
\* passes this check clears and replaces the items store.
C30_MalformedBackupRejected ==
  \A k \in 1..Len(imports) :
    /\ Malformed(imports[k].blob) =>
         /\ imports[k].thrown = "Invalid backup file"
         /\ imports[k].after = imports[k].before
    /\ imports[k].after.items # imports[k].before.items => ~Malformed(imports[k].blob)

\* a backup with items and no settings was rejected while both stores held
\* data, and a well-formed backup was able to replace the same stores
C30_Witness ==
  /\ imports # << >>
  /\ ~imports[1].blob.isNull
  /\ imports[1].blob.items.t = "array"
  /\ imports[1].blob.settings.t = "undefined"
  /\ imports[1].thrown = "Invalid backup file"
  /\ Cardinality(idbItems) = 2
  /\ idbSettings # << >>
  /\ idbItems # importAll(CHOOSE b \in LocalBlobs : ~Malformed(b) /\ b.settings.t = "object"
                                                    /\ b.items.v # << >>,
                          idbItems, idbSettings).items

====
